---- MODULE Spec2Model ----
(***************************************************************************)
(* Model of the Ducobox connectivity-board integration: the parameter      *)
(* classifier spread over the number, switch and select platforms, the     *)
(* config select entity, node sensor discovery, the box sensors and        *)
(* buttons, and the write operations of the entities.                      *)
(*                                                                         *)
(* Python values are tagged records: None, int, str, float (in             *)
(* hundredths), list and dict.  A                                          *)
(* dict carries a function from keys to values; its iteration order is the *)
(* order of KeyOrder restricted to the keys present.                       *)
(***************************************************************************)
EXTENDS Integers, Sequences, FiniteSets, TLC

VARIABLES data, setup, numberEntities, switchEntities, selectEntities,
          writes, refreshes, lastOp, node, discovered, descriptions,
          sensorEntities, buttonEntities, calls

vars == <<data, setup, numberEntities, switchEntities, selectEntities,
          writes, refreshes, lastOp, node, discovered, descriptions,
          sensorEntities, buttonEntities, calls>>

-----------------------------------------------------------------------------
(* Bounds of the model *)

MaxLeaves == 2
MaxNodes == 1
MaxWrites == 2
MaxVal == 3
MaxSensorLeaves == 2
MaxInfoLeaves == 2
MaxActions == 2

-----------------------------------------------------------------------------
(* Python values *)

PyNone == [t |-> "none"]
PyInt(n) == [t |-> "int", i |-> n]
PyStr(s) == [t |-> "str", s |-> s]
PyList(q) == [t |-> "list", l |-> q]
PyDict(f) == [t |-> "dict", d |-> f]
EmptyDict == PyDict(<<>>)

IsDict(x) == x.t = "dict"
HasKey(x, k) == k \in DOMAIN x.d

Truthy(x) ==
    CASE x.t = "none" -> FALSE
      [] x.t = "int" -> x.i # 0
      [] x.t = "float" -> x.h # 0
      [] x.t = "str" -> x.s # ""
      [] x.t = "list" -> x.l # <<>>
      [] x.t = "dict" -> DOMAIN x.d # {}

PyOr(x, y) == IF Truthy(x) THEN x ELSE y

DictGet(x, k, default) == IF HasKey(x, k) THEN x.d[k] ELSE default

KeyOrder ==
    << "General", "HeatRecovery", "VentCool", "Azure", "NightBoost",
       "Sensor", "Ventilation", "NetworkDuco", "Diag",
       "Setup", "Lan", "Bypass", "Connection",
       "Complete", "Mode", "TimeFilter", "EnableMonday", "Enable",
       "TempSupTgtZone1",
       "Node", "Co2SetPoint", "Name", "SerialBoard",
       "Temp", "Rh", "NewSensor", "State", "Type", "UpTime", "RSSIWifi", "Errors",
       "Val", "Min", "Max", "Inc" >>

Keys(x) == SelectSeq(KeyOrder, LAMBDA k : k \in DOMAIN x.d)

RECURSIVE Concat(_)
Concat(ss) == IF ss = <<>> THEN <<>> ELSE Head(ss) \o Concat(Tail(ss))

Range(s) == { s[i] : i \in 1..Len(s) }

RECURSIVE safe_get(_, _)

(* The walk stopping after the first key of the path *)
safe_get_one_step(d, path) ==
    IF path = <<>> THEN d
    ELSE IF ~IsDict(d) THEN PyNone
    ELSE IF ~HasKey(d, Head(path)) THEN PyNone
    ELSE d.d[Head(path)]

safe_get(d, path) ==
    IF path = <<>> THEN d
    ELSE IF ~IsDict(d) THEN PyNone
    ELSE IF ~HasKey(d, Head(path)) THEN PyNone
    ELSE safe_get(d.d[Head(path)], Tail(path))

-----------------------------------------------------------------------------
(* Strings that the code transforms character by character *)

Spelling(s) ==
    CASE s = "AA:BB:01" -> << "A", "A", ":", "B", "B", ":", "0", "1" >>
      [] OTHER -> << s >>

Lower(c) ==
    CASE c = "A" -> "a"
      [] c = "B" -> "b"
      [] OTHER -> c

RECURSIVE JoinChars(_)
JoinChars(cs) == IF cs = <<>> THEN "" ELSE Head(cs) \o JoinChars(Tail(cs))

(* mac_address.replace(":", "").lower() *)
MacToDeviceId(mac) ==
    LET kept == SelectSeq(Spelling(mac), LAMBDA c : c # ":")
    IN JoinChars([i \in 1..Len(kept) |-> Lower(kept[i])])

(* str(x) as used inside f-strings *)
Format(x) ==
    CASE x.t = "int" -> ToString(x.i)
      [] x.t = "str" -> x.s
      [] OTHER -> "None"

mac_address(d) ==
    PyOr(safe_get(d, << "info", "General", "Lan", "Mac", "Val" >>),
         PyStr("unknown_mac"))

-----------------------------------------------------------------------------
(* number.py *)

is_number_param(value) ==
    /\ IsDict(value)
    /\ HasKey(value, "Val")
    /\ HasKey(value, "Min")
    /\ HasKey(value, "Max")
    /\ HasKey(value, "Inc")

(* The submodule skip-set with the cloud-connectivity group left out *)
box_config_skip_without_azure ==
    { << "General", "Setup" >>,
      << "General", "Modbus" >>,
      << "General", "AutoRebootComm" >>,
      << "General", "PublicApi" >>,
      << "Firmware", "General" >> }

box_config_skip ==
    { << "General", "Setup" >>,
      << "General", "Modbus" >>,
      << "General", "AutoRebootComm" >>,
      << "General", "PublicApi" >>,
      << "Firmware", "General" >>,
      << "Azure", "Connection" >> }

box_config_skip_keys ==
    { << "General", "Lan", "Mode" >>,
      << "General", "Lan", "Dhcp" >>,
      << "General", "Lan", "TimeDucoClientIp" >> }

BoxUniqueId(device_id, module, submodule, key) ==
    device_id \o "-config-" \o module \o "-" \o submodule \o "-" \o key

DucoboxBoxNumberEntity(device_id, module, submodule, key, value) ==
    [ cls |-> "DucoboxBoxNumberEntity",
      module |-> module, submodule |-> submodule, param_key |-> key,
      unique_id |-> BoxUniqueId(device_id, module, submodule, key),
      min_value |-> value.d["Min"],
      max_value |-> value.d["Max"],
      step |-> value.d["Inc"] ]

(* The test of lines 108-115 applied to one (key, value) of a submodule *)
BoxNumberCandidate(module, submodule, key, value) ==
    /\ is_number_param(value)
    /\ value.d["Min"] # value.d["Max"]
    /\ << module, submodule, key >> \notin box_config_skip_keys

BoxNumberEntities(device_id, box_config) ==
    LET ms == Keys(box_config)
        OfSub(module, submodule, sub_data) ==
            LET ks == Keys(sub_data)
            IN Concat([i \in 1..Len(ks) |->
                 IF BoxNumberCandidate(module, submodule, ks[i], sub_data.d[ks[i]])
                 THEN << DucoboxBoxNumberEntity(device_id, module, submodule,
                                                ks[i], sub_data.d[ks[i]]) >>
                 ELSE <<>>])
        OfModule(module, module_data) ==
            LET ss == Keys(module_data)
            IN Concat([i \in 1..Len(ss) |->
                 IF ~IsDict(module_data.d[ss[i]]) THEN <<>>
                 ELSE IF << module, ss[i] >> \in box_config_skip THEN <<>>
                 ELSE OfSub(module, ss[i], module_data.d[ss[i]])])
    IN Concat([i \in 1..Len(ms) |->
         IF ~IsDict(box_config.d[ms[i]]) THEN <<>>
         ELSE OfModule(ms[i], box_config.d[ms[i]])])

DucoboxNodeNumberEntity(device_id, node_id, key, value) ==
    [ cls |-> "DucoboxNodeNumberEntity",
      node_id |-> node_id, param_key |-> key,
      unique_id |-> device_id \o "-" \o Format(node_id) \o "-" \o key,
      min_value |-> value.d["Min"],
      max_value |-> value.d["Max"],
      step |-> value.d["Inc"] ]

(* The node-level test with the box-level Min == Max rule applied to it *)
NodeNumberCandidate_skip_fixed(key, value) ==
    is_number_param(value) /\ value.d["Min"] # value.d["Max"]

(* The test of line 151 applied to one (key, value) of a node *)
NodeNumberCandidate(key, value) == is_number_param(value)

(* int(x) raises on None, on a mapping and on a list *)
IntRaises(x) == x.t \in { "none", "dict", "list" }

NodeNumberRaises(n) ==
    \/ ~IsDict(n)
    \/ ~HasKey(n, "Node")
    \/ \E k \in DOMAIN n.d :
         /\ NodeNumberCandidate(k, n.d[k])
         /\ \E f \in { "Min", "Max", "Inc" } : IntRaises(n.d[k].d[f])

NodeNumberEntities(device_id, number_nodes) ==
    LET OfNode(n) ==
            LET ks == Keys(n)
            IN Concat([i \in 1..Len(ks) |->
                 IF NodeNumberCandidate(ks[i], n.d[ks[i]])
                 THEN << DucoboxNodeNumberEntity(device_id, n.d["Node"],
                                                 ks[i], n.d[ks[i]]) >>
                 ELSE <<>>])
    IN Concat([i \in 1..Len(number_nodes) |-> OfNode(number_nodes[i])])

(* safe_get(...) or [] for a Nodes list *)
NodesOf(d, section) ==
    LET v == safe_get(d, << section, "Nodes" >>)
    IN IF v.t = "list" THEN v.l ELSE <<>>

(* Result of number.async_setup_entry: the list handed to async_add_entities,
   or nothing at all when the pass returns early or raises. *)
NumberSetupResult(d) ==
    LET mac == mac_address(d)
        box_config == DictGet(d, "config", EmptyDict)
        number_nodes == NodesOf(d, "config_nodes")
    IN IF mac = PyStr("unknown_mac")
       THEN [ status |-> "skipped", entities |-> <<>> ]
       ELSE IF \/ ~IsDict(box_config)
               \/ \E i \in 1..Len(number_nodes) : NodeNumberRaises(number_nodes[i])
       THEN [ status |-> "raised", entities |-> <<>> ]
       ELSE [ status |-> "done",
              entities |-> BoxNumberEntities(MacToDeviceId(mac.s), box_config)
                           \o NodeNumberEntities(MacToDeviceId(mac.s), number_nodes) ]

-----------------------------------------------------------------------------
(* switch.py *)

is_boolean_param(value) ==
    /\ is_number_param(value)
    /\ value.d["Min"] = PyInt(0)
    /\ value.d["Max"] = PyInt(1)

DucoboxBoxSwitchEntity(device_id, module, submodule, key) ==
    [ cls |-> "DucoboxBoxSwitchEntity",
      module |-> module, submodule |-> submodule, param_key |-> key,
      unique_id |-> BoxUniqueId(device_id, module, submodule, key) ]

(* The test of lines 74-77 applied to one (key, value) of a submodule *)
BoxSwitchCandidate(module, submodule, key, value) ==
    /\ is_boolean_param(value)
    /\ << module, submodule, key >> \notin box_config_skip_keys

BoxSwitchEntities(device_id, box_config) ==
    LET ms == Keys(box_config)
        OfSub(module, submodule, sub_data) ==
            LET ks == Keys(sub_data)
            IN Concat([i \in 1..Len(ks) |->
                 IF BoxSwitchCandidate(module, submodule, ks[i], sub_data.d[ks[i]])
                 THEN << DucoboxBoxSwitchEntity(device_id, module, submodule, ks[i]) >>
                 ELSE <<>>])
        OfModule(module, module_data) ==
            LET ss == Keys(module_data)
            IN Concat([i \in 1..Len(ss) |->
                 IF ~IsDict(module_data.d[ss[i]]) THEN <<>>
                 ELSE IF << module, ss[i] >> \in box_config_skip THEN <<>>
                 ELSE OfSub(module, ss[i], module_data.d[ss[i]])])
    IN Concat([i \in 1..Len(ms) |->
         IF ~IsDict(box_config.d[ms[i]]) THEN <<>>
         ELSE OfModule(ms[i], box_config.d[ms[i]])])

SwitchSetupResult(d) ==
    LET mac == mac_address(d)
        box_config == DictGet(d, "config", EmptyDict)
    IN IF mac = PyStr("unknown_mac")
       THEN [ status |-> "skipped", entities |-> <<>> ]
       ELSE IF ~IsDict(box_config)
       THEN [ status |-> "raised", entities |-> <<>> ]
       ELSE [ status |-> "done",
              entities |-> BoxSwitchEntities(MacToDeviceId(mac.s), box_config) ]

-----------------------------------------------------------------------------
(* select.py *)

ACTION_STATE_MAP ==
    [ a \in { "SetVentilationState" } |-> << "Ventilation", "State" >> ]

(* Insertion order of the table's keys *)
CONFIG_SELECT_KEYS ==
    << << "HeatRecovery", "Bypass", "Mode" >>,
       << "VentCool", "General", "Mode" >> >>

CONFIG_SELECT_PARAMS(p) ==
    CASE p = << "HeatRecovery", "Bypass", "Mode" >> ->
           << << 0, "Auto" >>, << 1, "Closed" >>, << 2, "Open" >> >>
      [] p = << "VentCool", "General", "Mode" >> ->
           << << 0, "Off" >>, << 1, "Auto" >>, << 2, "On" >> >>

(* labels = [label for _, label in option_pairs] *)
LabelsOf(option_pairs) ==
    [i \in 1..Len(option_pairs) |-> option_pairs[i][2]]

(* {v: label for v, label in option_pairs}: the last pair wins *)
ValToLabel(option_pairs) ==
    [ v \in { option_pairs[i][1] : i \in 1..Len(option_pairs) } |->
        LET last == CHOOSE i \in 1..Len(option_pairs) :
                      /\ option_pairs[i][1] = v
                      /\ \A j \in 1..Len(option_pairs) :
                           option_pairs[j][1] = v => j <= i
        IN option_pairs[last][2] ]

(* {label: v for v, label in option_pairs}: the last pair wins *)
LabelToVal(option_pairs) ==
    [ l \in { option_pairs[i][2] : i \in 1..Len(option_pairs) } |->
        LET last == CHOOSE i \in 1..Len(option_pairs) :
                      /\ option_pairs[i][2] = l
                      /\ \A j \in 1..Len(option_pairs) :
                           option_pairs[j][2] = l => j <= i
        IN option_pairs[last][1] ]

DucoboxConfigSelectEntity(device_id, p) ==
    [ cls |-> "DucoboxConfigSelectEntity",
      module |-> p[1], submodule |-> p[2], param_key |-> p[3],
      unique_id |-> BoxUniqueId(device_id, p[1], p[2], p[3]),
      options |-> LabelsOf(CONFIG_SELECT_PARAMS(p)),
      val_to_label |-> ValToLabel(CONFIG_SELECT_PARAMS(p)),
      label_to_val |-> LabelToVal(CONFIG_SELECT_PARAMS(p)) ]

(* The test of lines 117-119 applied to one key of the enum-label table *)
ConfigSelectCandidate(box_config, p) == safe_get(box_config, p) # PyNone

ConfigSelectEntities(device_id, box_config) ==
    Concat([i \in 1..Len(CONFIG_SELECT_KEYS) |->
        IF ConfigSelectCandidate(box_config, CONFIG_SELECT_KEYS[i])
        THEN << DucoboxConfigSelectEntity(device_id, CONFIG_SELECT_KEYS[i]) >>
        ELSE <<>>])

DucoboxActionSelectEntity(device_id, node_id, action) ==
    LET action_name == action.d["Action"].s
        has_state == action_name \in DOMAIN ACTION_STATE_MAP
    IN [ cls |-> "DucoboxActionSelectEntity",
         node_id |-> node_id,
         unique_id |-> device_id \o "-" \o Format(node_id) \o "-" \o action_name,
         options |-> action.d["Enum"],
         action |-> action_name,
         state_module |-> IF has_state THEN PyStr(ACTION_STATE_MAP[action_name][1])
                          ELSE PyNone,
         state_key |-> IF has_state THEN PyStr(ACTION_STATE_MAP[action_name][2])
                       ELSE PyNone ]

(* 'Enum' not in action or not action.get('Enum') *)
IsEnumAction(action) ==
    /\ IsDict(action)
    /\ HasKey(action, "Enum")
    /\ Truthy(action.d["Enum"])

ActionsOf(n) ==
    LET v == DictGet(n, "Actions", PyList(<<>>))
    IN IF v.t = "list" THEN v.l ELSE <<>>

ActionSelectRaises(n) ==
    \/ ~IsDict(n)
    \/ ~HasKey(n, "Node")
    \/ \E i \in 1..Len(ActionsOf(n)) :
         /\ IsEnumAction(ActionsOf(n)[i])
         /\ ~HasKey(ActionsOf(n)[i], "Action")

ActionSelectEntities(device_id, action_nodes) ==
    LET OfNode(n) ==
            LET as == ActionsOf(n)
            IN Concat([i \in 1..Len(as) |->
                 IF IsEnumAction(as[i])
                 THEN << DucoboxActionSelectEntity(device_id, n.d["Node"], as[i]) >>
                 ELSE <<>>])
    IN Concat([i \in 1..Len(action_nodes) |-> OfNode(action_nodes[i])])

(* Result of select.async_setup_entry; the pass has no early return *)
SelectSetupResult(d) ==
    LET mac == mac_address(d)
        device_id == MacToDeviceId(mac.s)
        action_nodes == NodesOf(d, "action_nodes")
        box_config == DictGet(d, "config", EmptyDict)
    IN IF \E i \in 1..Len(action_nodes) : ActionSelectRaises(action_nodes[i])
       THEN [ status |-> "raised", entities |-> <<>> ]
       ELSE [ status |-> "done",
              entities |-> ActionSelectEntities(device_id, action_nodes)
                           \o ConfigSelectEntities(device_id, box_config) ]

(* current_option testing the raw value for truth instead of for None *)
ConfigCurrentOption_truthy(e, d) ==
    LET raw == safe_get(d, << "config", e.module, e.submodule, e.param_key, "Val" >>)
    IN IF Truthy(raw)
       THEN IF raw.t = "int" /\ raw.i \in DOMAIN e.val_to_label
            THEN PyStr(e.val_to_label[raw.i])
            ELSE PyNone
       ELSE PyNone

(* DucoboxConfigSelectEntity.current_option.  The table's keys are ints, so
   val_to_label.get(raw) finds a label only for an int raw value; a str or an
   int outside the table gives None. *)
ConfigCurrentOption(e, d) ==
    LET raw == safe_get(d, << "config", e.module, e.submodule, e.param_key, "Val" >>)
    IN IF raw # PyNone
       THEN IF raw.t = "int" /\ raw.i \in DOMAIN e.val_to_label
            THEN PyStr(e.val_to_label[raw.i])
            ELSE PyNone
       ELSE PyNone

-----------------------------------------------------------------------------
(* model/utils.py *)

extract_val(x) == IF IsDict(x) /\ HasKey(x, "Val") THEN x.d["Val"] ELSE x

(* process_node_temperature, process_node_humidity, process_node_co2 and
   process_node_iaq pass their argument through *)
process_node(fn, x) == x

-----------------------------------------------------------------------------
(* model/devices.py *)

NodeSensorMeta(name, unit, device_class, state_class, process_fn, icon) ==
    [ name |-> name, native_unit_of_measurement |-> unit,
      device_class |-> device_class, state_class |-> state_class,
      process_fn |-> process_fn, icon |-> icon ]

NoAttr == "None"

NODE_SENSOR_REGISTRY ==
    ( << "Sensor", "Temp" >> :>
        NodeSensorMeta("Temperature", "CELSIUS", "TEMPERATURE", "MEASUREMENT",
                       "process_node_temperature", NoAttr) )
    @@ ( << "Sensor", "Rh" >> :>
        NodeSensorMeta("Relative Humidity", "PERCENTAGE", "HUMIDITY", "MEASUREMENT",
                       "process_node_humidity", NoAttr) )
    @@ ( << "Sensor", "IaqRh" >> :>
        NodeSensorMeta("Humidity Air Quality", "PERCENTAGE", NoAttr, "MEASUREMENT",
                       "process_node_iaq", "mdi:air-filter") )
    @@ ( << "Sensor", "Co2" >> :>
        NodeSensorMeta("CO₂", "CONCENTRATION_PARTS_PER_MILLION", "CO2", "MEASUREMENT",
                       "process_node_co2", NoAttr) )
    @@ ( << "Sensor", "IaqCo2" >> :>
        NodeSensorMeta("CO₂ Air Quality", "PERCENTAGE", NoAttr, "MEASUREMENT",
                       "process_node_iaq", "mdi:air-filter") )
    @@ ( << "Ventilation", "State" >> :>
        NodeSensorMeta("Ventilation State", NoAttr, NoAttr, NoAttr, NoAttr, "mdi:hvac") )
    @@ ( << "Ventilation", "Mode" >> :>
        NodeSensorMeta("Ventilation Mode", NoAttr, NoAttr, NoAttr, NoAttr, "mdi:hvac") )
    @@ ( << "Ventilation", "FlowLvlTgt" >> :>
        NodeSensorMeta("Flow Level Target", "PERCENTAGE", NoAttr, "MEASUREMENT",
                       NoAttr, "mdi:fan") )
    @@ ( << "Ventilation", "TimeStateRemain" >> :>
        NodeSensorMeta("Time State Remaining", "SECONDS", NoAttr, "MEASUREMENT",
                       NoAttr, "mdi:timer-outline") )
    @@ ( << "Ventilation", "TimeStateEnd" >> :>
        NodeSensorMeta("Time State End", "SECONDS", NoAttr, "MEASUREMENT",
                       NoAttr, "mdi:timer-outline") )
    @@ ( << "Ventilation", "Pos" >> :>
        NodeSensorMeta("Valve Position", "PERCENTAGE", NoAttr, "MEASUREMENT",
                       NoAttr, "mdi:valve") )
    @@ ( << "Ventilation", "FlowLvlOvrl" >> :>
        NodeSensorMeta("Flow Level Override", "PERCENTAGE", NoAttr, "MEASUREMENT",
                       NoAttr, "mdi:fan") )
    @@ ( << "Ventilation", "FlowLvlReqSensor" >> :>
        NodeSensorMeta("Flow Level Sensor Request", "PERCENTAGE", NoAttr, "MEASUREMENT",
                       NoAttr, "mdi:fan") )
    @@ ( << "NetworkDuco", "CommErrorCtr" >> :>
        NodeSensorMeta("Communication Error Counter", NoAttr, NoAttr, "TOTAL_INCREASING",
                       NoAttr, "mdi:alert-circle-outline") )
    @@ ( << "NetworkDuco", "RssiRfN2M" >> :>
        NodeSensorMeta("RF Signal Strength (Node to Master)", "dBm", "SIGNAL_STRENGTH",
                       "MEASUREMENT", NoAttr, NoAttr) )
    @@ ( << "NetworkDuco", "RssiRfN2H" >> :>
        NodeSensorMeta("RF Signal Strength (Node to Hub)", "dBm", "SIGNAL_STRENGTH",
                       "MEASUREMENT", NoAttr, NoAttr) )
    @@ ( << "NetworkDuco", "HopRf" >> :>
        NodeSensorMeta("RF Hop Count", NoAttr, NoAttr, "MEASUREMENT",
                       NoAttr, "mdi:access-point-network") )
    @@ ( << "General", "UpTime" >> :>
        NodeSensorMeta("Uptime", "s", "DURATION", "TOTAL_INCREASING", NoAttr, NoAttr) )
    @@ ( << "General", "BootCtr" >> :>
        NodeSensorMeta("Boot Counter", NoAttr, NoAttr, "TOTAL_INCREASING",
                       NoAttr, "mdi:restart") )
    @@ ( << "General", "WeekCtr" >> :>
        NodeSensorMeta("Week Counter", NoAttr, NoAttr, "TOTAL_INCREASING",
                       NoAttr, "mdi:calendar-week") )

(* Spelling of the keys the humanizer is applied to *)
KeySpelling(key) ==
    CASE key = "NewSensor" -> << "N", "e", "w", "S", "e", "n", "s", "o", "r" >>
      [] key = "RSSIWifi" -> << "R", "S", "S", "I", "W", "i", "f", "i" >>
      [] key = "RF" -> << "R", "F" >>
      [] key = "Temp" -> << "T", "e", "m", "p" >>
      [] key = "State" -> << "S", "t", "a", "t", "e" >>
      [] key = "Type" -> << "T", "y", "p", "e" >>
      [] key = "UpTime" -> << "U", "p", "T", "i", "m", "e" >>
      [] key = "Errors" -> << "E", "r", "r", "o", "r", "s" >>
      [] OTHER -> << key >>

UpperChars ==
    { "A", "B", "C", "D", "E", "F", "G", "H", "I", "J", "K", "L", "M",
      "N", "O", "P", "Q", "R", "S", "T", "U", "V", "W", "X", "Y", "Z" }

LowerChars ==
    { "a", "b", "c", "d", "e", "f", "g", "h", "i", "j", "k", "l", "m",
      "n", "o", "p", "q", "r", "s", "t", "u", "v", "w", "x", "y", "z" }

(* re.sub(r'([a-z])([A-Z])', r'\1 \2', s) on a sequence of characters *)
SubLowerUpper(cs) ==
    Concat([i \in 1..Len(cs) |->
        IF i > 1 /\ cs[i-1] \in LowerChars /\ cs[i] \in UpperChars
        THEN << " ", cs[i] >> ELSE << cs[i] >>])

(* re.sub(r'([A-Z]+)([A-Z][a-z])', r'\1 \2', s) on a sequence of characters *)
SubAcronym(cs) ==
    Concat([i \in 1..Len(cs) |->
        IF /\ i > 1 /\ i < Len(cs)
           /\ cs[i-1] \in UpperChars /\ cs[i] \in UpperChars
           /\ cs[i+1] \in LowerChars
        THEN << " ", cs[i] >> ELSE << cs[i] >>])

humanize_key(key) == JoinChars(SubAcronym(SubLowerUpper(KeySpelling(key))))

modules_to_scan == << "Sensor", "Ventilation", "NetworkDuco", "General" >>

general_skip_keys ==
    { "Type", "SubType", "ProductId", "NetworkType", "Addr", "SubAddr",
      "Parent", "Asso", "SwVersion", "SerialBoard", "SerialDuco",
      "Name", "Identify", "LinkMode" }

(* The discovery test accepting any mapping, with or without Val *)
NodeSensorCandidate_any_mapping(module, key, value) ==
    /\ IsDict(value)
    /\ ~(module = "General" /\ key \in general_skip_keys)

(* The tests of lines 713-718 applied to one (key, value) of a module *)
NodeSensorCandidate(module, key, value) ==
    /\ IsDict(value) /\ HasKey(value, "Val")
    /\ ~(module = "General" /\ key \in general_skip_keys)

(* The descriptor with a registered state class of None replaced by the
   default measurement *)
DucoboxNodeSensorEntityDescription_default_state_class(module, key) ==
    LET known == << module, key >> \in DOMAIN NODE_SENSOR_REGISTRY
        meta == NODE_SENSOR_REGISTRY[<< module, key >>]
        sensor_key == module \o "_" \o key
    IN [ key |-> sensor_key,
         name |-> IF known THEN meta.name
                  ELSE module \o " " \o humanize_key(key),
         value_fn |-> [ module |-> module, key |-> key,
                        process_fn |-> IF known THEN meta.process_fn ELSE NoAttr ],
         sensor_key |-> sensor_key,
         data_path |-> << module, key >>,
         native_unit_of_measurement |->
             IF known THEN meta.native_unit_of_measurement ELSE NoAttr,
         device_class |-> IF known THEN meta.device_class ELSE NoAttr,
         state_class |-> IF known /\ meta.state_class # NoAttr
                         THEN meta.state_class ELSE "MEASUREMENT",
         icon |-> IF known THEN meta.icon ELSE NoAttr ]

DucoboxNodeSensorEntityDescription(module, key) ==
    LET known == << module, key >> \in DOMAIN NODE_SENSOR_REGISTRY
        meta == NODE_SENSOR_REGISTRY[<< module, key >>]
        sensor_key == module \o "_" \o key
    IN [ key |-> sensor_key,
         name |-> IF known THEN meta.name
                  ELSE module \o " " \o humanize_key(key),
         value_fn |-> [ module |-> module, key |-> key,
                        process_fn |-> IF known THEN meta.process_fn ELSE NoAttr ],
         sensor_key |-> sensor_key,
         data_path |-> << module, key >>,
         native_unit_of_measurement |->
             IF known THEN meta.native_unit_of_measurement ELSE NoAttr,
         device_class |-> IF known THEN meta.device_class ELSE NoAttr,
         state_class |-> IF known THEN meta.state_class ELSE "MEASUREMENT",
         icon |-> IF known THEN meta.icon ELSE NoAttr ]

discover_node_sensors(n) ==
    LET OfModule(module) ==
            LET module_data == DictGet(n, module, PyNone)
                ks == IF IsDict(module_data) THEN Keys(module_data) ELSE <<>>
            IN Concat([i \in 1..Len(ks) |->
                 IF NodeSensorCandidate(module, ks[i], module_data.d[ks[i]])
                 THEN << DucoboxNodeSensorEntityDescription(module, ks[i]) >>
                 ELSE <<>>])
    IN Concat([i \in 1..Len(modules_to_scan) |-> OfModule(modules_to_scan[i])])

(* The value function reporting 0 for a reading the node does not hold *)
NodeValueFn_zero_default(desc, n) ==
    LET raw == safe_get(n, << desc.value_fn.module, desc.value_fn.key >>)
    IN IF raw = PyNone THEN PyInt(0)
       ELSE IF desc.value_fn.process_fn # NoAttr
       THEN process_node(desc.value_fn.process_fn, extract_val(raw))
       ELSE extract_val(raw)

(* value_fn of a node descriptor applied to a node document *)
NodeValueFn(desc, n) ==
    LET raw == safe_get(n, << desc.value_fn.module, desc.value_fn.key >>)
    IN IF desc.value_fn.process_fn # NoAttr
       THEN process_node(desc.value_fn.process_fn, extract_val(raw))
       ELSE extract_val(raw)

-----------------------------------------------------------------------------
(* model/utils.py: unit converters.  A float is carried in hundredths; a call
   yields the value returned or the fact that it raised. *)

PyFloat(h) == [ t |-> "float", h |-> h ]

Returned(v) == [ raised |-> FALSE, value |-> v ]
Raised == [ raised |-> TRUE, value |-> PyNone ]

(* float(s) of the strings the documents carry, in hundredths *)
ParseFloat(s) ==
    CASE s = "167" -> Returned(PyFloat(16700))
      [] s = "50.7" -> Returned(PyFloat(5070))
      [] OTHER -> Raised

(* float(x) *)
ToFloat(x) ==
    CASE x.t = "int" -> Returned(PyFloat(100 * x.i))
      [] x.t = "float" -> Returned(x)
      [] x.t = "str" -> ParseFloat(x.s)
      [] OTHER -> Raised

(* round(x) of a float in hundredths: to the nearest integer, ties to even *)
RoundHalfEven(h) ==
    LET q == h \div 100
        r == h % 100
    IN IF r < 50 THEN q
       ELSE IF r > 50 THEN q + 1
       ELSE IF q % 2 = 0 THEN q ELSE q + 1

process_temperature(x) ==
    CASE x.t = "none" -> Returned(PyNone)
      [] x.t = "int" -> Returned(PyFloat(10 * x.i))
      [] x.t = "float" /\ x.h % 10 = 0 -> Returned(PyFloat(x.h \div 10))
      [] OTHER -> Raised

process_pressure(x) ==
    IF x.t = "none" THEN Returned(PyNone)
    ELSE LET f == ToFloat(x)
         IN IF f.raised \/ f.value.h % 10 # 0 THEN Raised
            ELSE Returned(PyFloat(f.value.h \div 10))

process_bypass_position(x) ==
    IF x.t = "none" THEN Returned(PyNone)
    ELSE LET f == ToFloat(x)
         IN IF f.raised THEN Raised
            ELSE Returned(PyInt(RoundHalfEven(f.value.h)))

(* The converter named fn applied to x; process_speed, process_rssi,
   process_uptime and process_timefilterremain pass their argument through *)
process_box(fn, x) ==
    CASE fn = "process_temperature" -> process_temperature(x)
      [] fn = "process_pressure" -> process_pressure(x)
      [] fn = "process_bypass_position" -> process_bypass_position(x)
      [] OTHER -> Returned(x)

-----------------------------------------------------------------------------
(* model/devices.py: box-level sensors *)

BoxSensor(key, path, process_fn) ==
    [ key |-> key,
      value_fn |-> [ kind |-> "val", path |-> << "info" >> \o path \o << "Val" >>,
                     process_fn |-> process_fn ],
      data_path |-> << "info" >> \o path ]

BoxSensorFirstStatus(key, path) ==
    [ key |-> key,
      value_fn |-> [ kind |-> "first_status", path |-> path, process_fn |-> NoAttr ],
      data_path |-> path ]

SENSORS ==
    << BoxSensor("TempOda", << "Ventilation", "Sensor", "TempOda" >>, "process_temperature"),
       BoxSensor("TempSup", << "Ventilation", "Sensor", "TempSup" >>, "process_temperature"),
       BoxSensor("TempEta", << "Ventilation", "Sensor", "TempEta" >>, "process_temperature"),
       BoxSensor("TempEha", << "Ventilation", "Sensor", "TempEha" >>, "process_temperature"),
       BoxSensor("SpeedSup", << "Ventilation", "Fan", "SpeedSup" >>, "process_speed"),
       BoxSensor("SpeedEha", << "Ventilation", "Fan", "SpeedEha" >>, "process_speed"),
       BoxSensor("PressSup", << "Ventilation", "Fan", "PressSup" >>, "process_pressure"),
       BoxSensor("PressEha", << "Ventilation", "Fan", "PressEha" >>, "process_pressure"),
       BoxSensor("PwmSup", << "Ventilation", "Fan", "PwmSup" >>, NoAttr),
       BoxSensor("PwmEha", << "Ventilation", "Fan", "PwmEha" >>, NoAttr),
       BoxSensor("PressSupTgt", << "Ventilation", "Fan", "PressSupTgt" >>, "process_pressure"),
       BoxSensor("PressEhaTgt", << "Ventilation", "Fan", "PressEhaTgt" >>, "process_pressure"),
       BoxSensor("RssiWifi", << "General", "Lan", "RssiWifi" >>, "process_rssi"),
       BoxSensor("UpTime", << "General", "Board", "UpTime" >>, "process_uptime"),
       BoxSensor("TimeFilterRemain", << "HeatRecovery", "General", "TimeFilterRemain" >>, "process_timefilterremain"),
       BoxSensor("BypassPos", << "HeatRecovery", "Bypass", "Pos" >>, "process_bypass_position"),
       BoxSensor("BypassTempSupTgt", << "HeatRecovery", "Bypass", "TempSupTgt" >>, "process_temperature"),
       BoxSensor("FrostProtectState", << "HeatRecovery", "ProtectFrost", "State" >>, NoAttr),
       BoxSensor("FrostProtectPressReduct", << "HeatRecovery", "ProtectFrost", "PressReduct" >>, NoAttr),
       BoxSensor("NightBoostTempOutsideAvg", << "NightBoost", "General", "TempOutsideAvg" >>, "process_temperature"),
       BoxSensor("NightBoostFlowLvlReqZone1", << "NightBoost", "General", "FlowLvlReqZone1" >>, NoAttr),
       BoxSensor("NightBoostTempOutsideAvgThs", << "NightBoost", "General", "TempOutsideAvgThs" >>, "process_temperature"),
       BoxSensor("NightBoostTempOutside", << "NightBoost", "General", "TempOutside" >>, "process_temperature"),
       BoxSensor("NightBoostTempComfort", << "NightBoost", "General", "TempComfort" >>, "process_temperature"),
       BoxSensor("NightBoostTempZone1", << "NightBoost", "General", "TempZone1" >>, "process_temperature"),
       BoxSensor("VentCoolState", << "VentCool", "General", "State" >>, NoAttr),
       BoxSensor("VentCoolTempInside", << "VentCool", "General", "TempInside" >>, "process_temperature"),
       BoxSensor("VentCoolTempOutsideAvgThs", << "VentCool", "General", "TempOutsideAvgThs" >>, "process_temperature"),
       BoxSensor("VentCoolTempOutsideAvg", << "VentCool", "General", "TempOutsideAvg" >>, "process_temperature"),
       BoxSensor("VentCoolTempInsideMin", << "VentCool", "General", "TempInsideMin" >>, "process_temperature"),
       BoxSensor("VentCoolTempInsideMax", << "VentCool", "General", "TempInsideMax" >>, "process_temperature"),
       BoxSensor("VentCoolTempComfort", << "VentCool", "General", "TempComfort" >>, "process_temperature"),
       BoxSensor("VentCoolTempOutside", << "VentCool", "General", "TempOutside" >>, "process_temperature"),
       BoxSensor("PwmLvlSup", << "Ventilation", "Fan", "PwmLvlSup" >>, NoAttr),
       BoxSensor("PwmLvlEha", << "Ventilation", "Fan", "PwmLvlEha" >>, NoAttr),
       BoxSensor("CalibrationState", << "Ventilation", "Calibration", "State" >>, NoAttr),
       BoxSensor("CalibrationStatus", << "Ventilation", "Calibration", "Status" >>, NoAttr),
       BoxSensor("LanMode", << "General", "Lan", "Mode" >>, NoAttr),
       BoxSensor("LanIp", << "General", "Lan", "Ip" >>, NoAttr),
       BoxSensor("NetworkDucoState", << "General", "NetworkDuco", "State" >>, NoAttr),
       BoxSensor("PublicApiWriteReqCntRemain", << "General", "PublicApi", "WriteReqCntRemain" >>, NoAttr),
       BoxSensor("HeaterOdaPresent", << "HeatRecovery", "ProtectFrost", "HeaterOdaPresent" >>, NoAttr),
       BoxSensorFirstStatus("DiagStatus", << "info", "Diag", "SubSystems" >>) >>

(* The value function reading the mapping with data[...] subscripts *)
BoxValueFn_subscript(desc, d) ==
    LET Walk[i \in 0..Len(desc.value_fn.path)] ==
            IF i = 0 THEN Returned(d)
            ELSE LET prev == Walk[i - 1]
                 IN IF prev.raised THEN Raised
                    ELSE IF IsDict(prev.value) /\ HasKey(prev.value, desc.value_fn.path[i])
                    THEN Returned(prev.value.d[desc.value_fn.path[i]])
                    ELSE Raised
        raw == Walk[Len(desc.value_fn.path)]
    IN IF raw.raised THEN Raised
       ELSE IF desc.value_fn.kind = "first_status"
       THEN IF raw.value.t = "list" /\ Len(raw.value.l) > 0 /\ IsDict(raw.value.l[1])
            THEN Returned(DictGet(raw.value.l[1], "Status", PyNone))
            ELSE Raised
       ELSE IF desc.value_fn.process_fn = NoAttr THEN raw
       ELSE process_box(desc.value_fn.process_fn, raw.value)

(* The value function with DiagStatus reading the last element, ss[-1] *)
BoxValueFn_last_status(desc, d) ==
    LET raw == safe_get(d, desc.value_fn.path)
    IN IF desc.value_fn.kind = "first_status"
       THEN IF Truthy(raw) /\ raw.t = "list" /\ Len(raw.l) > 0
            THEN IF IsDict(raw.l[Len(raw.l)])
                 THEN Returned(DictGet(raw.l[Len(raw.l)], "Status", PyNone))
                 ELSE Raised
            ELSE Returned(PyNone)
       ELSE IF desc.value_fn.process_fn = NoAttr THEN Returned(raw)
       ELSE process_box(desc.value_fn.process_fn, raw)

(* description.value_fn(data): the lambdas of SENSORS *)
BoxValueFn(desc, d) ==
    LET raw == safe_get(d, desc.value_fn.path)
    IN IF desc.value_fn.kind = "first_status"
       THEN IF Truthy(raw) /\ raw.t = "list" /\ Len(raw.l) > 0
            THEN IF IsDict(raw.l[1])
                 THEN Returned(DictGet(raw.l[1], "Status", PyNone))
                 ELSE Raised
            ELSE Returned(PyNone)
       ELSE IF desc.value_fn.process_fn = NoAttr THEN Returned(raw)
       ELSE process_box(desc.value_fn.process_fn, raw)

-----------------------------------------------------------------------------
(* sensor.py *)

DucoboxSensorEntity(device_id, description) ==
    [ cls |-> "DucoboxSensorEntity",
      description |-> description,
      unique_id |-> device_id \o "-" \o description.key ]

(* The existence test of lines 53-55 keeping every descriptor *)
BoxSensorCandidate_always(d, description) == TRUE

(* The existence test of lines 53-55 *)
BoxSensorCandidate(d, description) ==
    safe_get(d, description.data_path) # PyNone

BoxSensorEntities(device_id, d) ==
    Concat([i \in 1..Len(SENSORS) |->
        IF BoxSensorCandidate(d, SENSORS[i])
        THEN << DucoboxSensorEntity(device_id, SENSORS[i]) >>
        ELSE <<>>])

DucoboxNodeSensorEntity(device_id, n, description) ==
    LET node_id == DictGet(n, "Node", PyNone)
        node_type == PyOr(safe_get(n, << "General", "Type", "Val" >>), PyStr("Unknown"))
        node_device_id == device_id \o "-" \o Format(node_id)
    IN [ cls |-> "DucoboxNodeSensorEntity",
         node_id |-> node_id,
         description |-> description,
         unique_id |-> node_device_id \o "-" \o description.key,
         device_id |-> device_id,
         node_name |-> device_id \o ":" \o Format(node_id) \o ":" \o Format(node_type) ]

NodeSensorEntities(device_id, nodes) ==
    LET OfNode(n) ==
            LET ds == discover_node_sensors(n)
            IN [j \in 1..Len(ds) |-> DucoboxNodeSensorEntity(device_id, n, ds[j])]
    IN Concat([i \in 1..Len(nodes) |-> OfNode(nodes[i])])

(* The sensor pass without the early return of lines 29-31 *)
SensorSetupResult_no_gate(d) ==
    LET mac == mac_address(d)
        device_id == IF mac = PyStr("unknown_mac") THEN "unknown_mac"
                     ELSE MacToDeviceId(mac.s)
        nodes == PyOr(safe_get(d, << "nodes" >>), PyList(<<>>))
    IN IF \/ nodes.t # "list"
          \/ \E i \in 1..Len(nodes.l) : ~IsDict(nodes.l[i])
       THEN [ status |-> "raised", entities |-> <<>> ]
       ELSE [ status |-> "done",
              entities |-> BoxSensorEntities(device_id, d)
                           \o NodeSensorEntities(device_id, nodes.l) ]

(* Result of sensor.async_setup_entry: the list handed to async_add_entities,
   or nothing at all when the pass returns early or raises. *)
SensorSetupResult(d) ==
    LET mac == mac_address(d)
        nodes == PyOr(safe_get(d, << "nodes" >>), PyList(<<>>))
    IN IF mac = PyStr("unknown_mac")
       THEN [ status |-> "skipped", entities |-> <<>> ]
       ELSE IF \/ nodes.t # "list"
               \/ \E i \in 1..Len(nodes.l) : ~IsDict(nodes.l[i])
       THEN [ status |-> "raised", entities |-> <<>> ]
       ELSE [ status |-> "done",
              entities |-> BoxSensorEntities(MacToDeviceId(mac.s), d)
                           \o NodeSensorEntities(MacToDeviceId(mac.s), nodes.l) ]

-----------------------------------------------------------------------------
(* button.py *)

DucoboxButtonEntityDescription(key, name, action, icon) ==
    [ key |-> key, name |-> name, action |-> action, icon |-> icon ]

BOX_BUTTONS ==
    << DucoboxButtonEntityDescription("reset_filter_time_remain", "Reset Filter Timer",
                                      "ResetFilterTimeRemain", "mdi:air-filter"),
       DucoboxButtonEntityDescription("update_node_data", "Update Node Data",
                                      "UpdateNodeData", "mdi:refresh"),
       DucoboxButtonEntityDescription("reconnect_wifi", "Reconnect Wi-Fi",
                                      "ReconnectWifi", "mdi:wifi-sync"),
       DucoboxButtonEntityDescription("scan_wifi", "Scan Wi-Fi Networks",
                                      "ScanWifi", "mdi:wifi-find") >>

DucoboxButtonEntity(device_id, description) ==
    [ cls |-> "DucoboxButtonEntity",
      description |-> description,
      unique_id |-> device_id \o "-" \o description.key ]

(* The items a for-loop over box_actions visits: the elements of a list, the
   keys of a mapping, the characters of a string *)
IterItems(x) ==
    CASE x.t = "list" -> x.l
      [] x.t = "dict" -> [i \in 1..Len(Keys(x)) |-> PyStr(Keys(x)[i])]
      [] OTHER -> <<>>

(* available_actions of lines 96-100 with every description's action added *)
AvailableActions_all(box_actions) ==
    { PyStr(BOX_BUTTONS[i].action) : i \in 1..Len(BOX_BUTTONS) }

(* available_actions of lines 96-100 *)
AvailableActions(box_actions) ==
    { act.d["Action"] :
        act \in { a \in Range(IterItems(box_actions)) : IsDict(a) /\ HasKey(a, "Action") } }

(* for act in box_actions raises on a number; set.add raises on an unhashable
   Action value *)
ButtonSetupRaises(box_actions) ==
    \/ box_actions.t \in { "int", "float" }
    \/ \E a \in AvailableActions(box_actions) : a.t \in { "list", "dict" }

ButtonEntities(device_id, box_actions) ==
    Concat([i \in 1..Len(BOX_BUTTONS) |->
        IF PyStr(BOX_BUTTONS[i].action) \in AvailableActions(box_actions)
        THEN << DucoboxButtonEntity(device_id, BOX_BUTTONS[i]) >>
        ELSE <<>>])

(* Result of button.async_setup_entry *)
ButtonSetupResult(d) ==
    LET mac == mac_address(d)
        box_actions == PyOr(safe_get(d, << "action", "Actions" >>), PyList(<<>>))
    IN IF mac = PyStr("unknown_mac")
       THEN [ status |-> "skipped", entities |-> <<>> ]
       ELSE IF ButtonSetupRaises(box_actions)
       THEN [ status |-> "raised", entities |-> <<>> ]
       ELSE [ status |-> "done",
              entities |-> ButtonEntities(MacToDeviceId(mac.s), box_actions) ]

-----------------------------------------------------------------------------
(* Write operations of the number, switch and select entities *)

(* coordinator.async_request_refresh() as an entry of the call log *)
RefreshCall == [ call |-> "async_request_refresh", args |-> <<>>, raised |-> FALSE ]

CoordinatorCall(name, args, ok) == [ call |-> name, args |-> args, raised |-> ~ok ]

(* The two awaits with the refresh requested ahead of the write *)
WriteThenRefresh_refresh_first(name, args, ok) ==
    [ calls |-> << RefreshCall, CoordinatorCall(name, args, ok) >>,
      result |-> IF ok THEN "ok" ELSE "write_error" ]

(* The two awaits with the write wrapped in a try/except that swallows the
   error *)
WriteThenRefresh_suppressed(name, args, ok) ==
    [ calls |-> << CoordinatorCall(name, args, ok), RefreshCall >>,
      result |-> "ok" ]

(* await coordinator.<write>(...); await coordinator.async_request_refresh():
   the calls made, in order, and how the handler ends.  An exception of the
   first await leaves the handler at once and reaches the caller. *)
WriteThenRefresh(name, args, ok) ==
    IF ok
    THEN [ calls |-> << CoordinatorCall(name, args, TRUE), RefreshCall >>,
           result |-> "ok" ]
    ELSE [ calls |-> << CoordinatorCall(name, args, FALSE) >>,
           result |-> "write_error" ]

IsWrite(c) == c.call # "async_request_refresh"
IsRefresh(c) == c.call = "async_request_refresh"

(* int(x) of a step: the integer part of a float, the int itself *)
IntOf(x) == IF x.t = "float" THEN (IF x.h >= 0 THEN x.h \div 100 ELSE -((-x.h) \div 100))
            ELSE x.i

(* Python equality of two numbers, int or float *)
NumEq(x, y) ==
    (IF x.t = "float" THEN x.h ELSE 100 * x.i) = (IF y.t = "float" THEN y.h ELSE 100 * y.i)

(* int(round(value)) *)
IntRound(value) ==
    IF value.t = "float" THEN PyInt(RoundHalfEven(value.h)) ELSE value

(* The value DucoboxBoxNumberEntity.async_set_native_value writes *)
BoxNumberWriteValue(e, value) ==
    IF Truthy(e.step) /\ NumEq(e.step, PyInt(IntOf(e.step)))
    THEN IntRound(value)
    ELSE value

(* native_value reporting the lower bound the entity was built with *)
BoxNativeValue_built_with(e, d) == e.min_value

(* DucoboxBoxNumberEntity.native_value *)
BoxNativeValue(e, d) ==
    safe_get(d, << "config", e.module, e.submodule, e.param_key, "Val" >>)

-----------------------------------------------------------------------------
(* Documents the model starts from *)

(* Nested mapping holding value e[p] at every path p of DOMAIN e *)
RECURSIVE Nest(_)
Nest(e) ==
    [ k \in { p[1] : p \in DOMAIN e } |->
        IF << k >> \in DOMAIN e THEN e[<< k >>]
        ELSE PyDict(Nest([ q \in { Tail(p) : p \in { r \in DOMAIN e : r[1] = k } }
                             |-> e[<< k >> \o q] ])) ]

SubsetsUpTo(S, n) == { T \in SUBSET S : Cardinality(T) <= n }

(* All assignments of allowed values to at most n of the slots *)
Entries(slots, n, Allowed(_)) ==
    UNION { { f \in [T -> UNION { Allowed(p) : p \in T }] :
                \A p \in T : f[p] \in Allowed(p) } : T \in SubsetsUpTo(slots, n) }

Tunable(val, min, max, inc) ==
    PyDict(("Val" :> val) @@ ("Min" :> PyInt(min)) @@ ("Max" :> PyInt(max))
           @@ ("Inc" :> PyInt(inc)))

LeafValues ==
    { PyNone, PyInt(5), PyDict("Val" :> PyInt(0)),
      PyDict(("Min" :> PyInt(0)) @@ ("Max" :> PyInt(1)) @@ ("Inc" :> PyInt(1))) }
    \cup { Tunable(PyInt(0), mn, mx, 1) : mn \in 0..1, mx \in 1..2 }

ConfigPaths ==
    { << "General", "Lan", "Mode" >>,
      << "HeatRecovery", "Bypass", "Mode" >>,
      << "HeatRecovery", "Bypass", "TimeFilter" >>,
      << "VentCool", "General", "Mode" >>,
      << "VentCool", "General", "EnableMonday" >>,
      << "Azure", "Connection", "Enable" >> }

(* A module that is not a mapping, or whose submodule is not a mapping *)
MalformedSlot == << "NightBoost" >>
MalformedValues == { PyInt(1), PyDict("General" :> PyInt(1)) }

ConfigAllowed(p) == IF p = MalformedSlot THEN MalformedValues ELSE LeafValues

ConfigDocs ==
    { PyDict(Nest(e)) :
        e \in Entries(ConfigPaths \cup { MalformedSlot }, MaxLeaves, ConfigAllowed) }

MacValues == { PyNone, PyStr("AA:BB:01") }

InfoOf(mac) ==
    PyDict("General" :> PyDict("Lan" :> PyDict("Mac" :> PyDict("Val" :> mac))))

FixtureConfig ==
    PyDict(Nest(
        (<< "HeatRecovery", "Bypass", "TimeFilter" >> :> Tunable(PyInt(180), 90, 360, 90))
        @@ (<< "HeatRecovery", "Bypass", "Mode" >> :> Tunable(PyInt(0), 0, 2, 1))
        @@ (<< "VentCool", "General", "EnableMonday" >> :> Tunable(PyInt(0), 0, 1, 1))))

FixtureConfigNodes ==
    PyDict("Nodes" :> PyList(<< PyDict(("Node" :> PyInt(2))
                                      @@ ("SerialBoard" :> PyStr("RS02"))
                                      @@ ("Co2SetPoint" :> Tunable(PyInt(1), 0, 2, 1))) >>))

FixtureActionNodes ==
    PyDict("Nodes" :> PyList(<<
        PyDict(("Node" :> PyInt(1))
               @@ ("Actions" :> PyList(<<
                     PyDict(("Action" :> PyStr("SetVentilationState"))
                            @@ ("Enum" :> PyList(<< PyStr("AUTO"), PyStr("MAN1") >>))),
                     PyDict("Action" :> PyStr("SetIdentify")) >>))) >>))

Document(mac, config, config_nodes) ==
    PyDict(("info" :> InfoOf(mac)) @@ ("config" :> config)
           @@ ("config_nodes" :> config_nodes)
           @@ ("action_nodes" :> FixtureActionNodes))

BoxDocs == { Document(mac, c, FixtureConfigNodes) : mac \in MacValues, c \in ConfigDocs }

NodeKeys == { "Co2SetPoint", "Mode" }

NodeIds == { 1, 2 }

NodeLeafValues ==
    { PyInt(5), PyDict("Val" :> PyInt(0)) }
    \cup { Tunable(PyInt(0), 0, 1, 1), Tunable(PyInt(0), 1, 1, 1),
           Tunable(PyInt(0), 0, 2, 1) }

ConfigNodeDocs ==
    { PyDict(("Node" :> PyInt(id)) @@ e) :
        id \in NodeIds,
        e \in UNION { [T -> NodeLeafValues] : T \in SUBSET NodeKeys } }

SeqsUpTo(S, n) == UNION { [1..k -> S] : k \in 0..n }

NodeDocs ==
    { Document(mac, FixtureConfig, PyDict("Nodes" :> PyList(ns))) :
        mac \in MacValues, ns \in SeqsUpTo(ConfigNodeDocs, MaxNodes) }

Platforms == { "number", "switch", "select" }

(* The platforms fed by the info, nodes and action sections *)
InfoPlatforms == { "sensor", "button" }

NoOp == [ op |-> "none" ]

InitRest ==
    /\ setup = [ p \in Platforms \cup InfoPlatforms |-> "pending" ]
    /\ numberEntities = <<>>
    /\ sensorEntities = <<>>
    /\ buttonEntities = <<>>
    /\ calls = <<>>
    /\ switchEntities = <<>>
    /\ selectEntities = <<>>
    /\ writes = <<>>
    /\ refreshes = 0
    /\ lastOp = NoOp
    /\ node = EmptyDict
    /\ discovered = FALSE
    /\ descriptions = <<>>

Init == data \in BoxDocs /\ InitRest

InitNode == data \in NodeDocs /\ InitRest

ValValues == { PyNone, PyStr("1") } \cup { PyInt(n) : n \in 0..MaxVal }

EnumLeafValues ==
    { PyDict(("Min" :> PyInt(0)) @@ ("Max" :> PyInt(2)) @@ ("Inc" :> PyInt(1))) }
    \cup { Tunable(v, 0, 2, 1) : v \in ValValues }

EnumAllowed(p) == EnumLeafValues

SelectDocs ==
    { Document(mac, PyDict(Nest(e)), FixtureConfigNodes) :
        mac \in MacValues,
        e \in Entries(Range(CONFIG_SELECT_KEYS), 2, EnumAllowed) }

InitSelect == data \in SelectDocs /\ InitRest

SensorSlots ==
    { << "Sensor", "Temp" >>, << "Sensor", "NewSensor" >>,
      << "Ventilation", "State" >>,
      << "General", "Type" >>, << "General", "UpTime" >>,
      << "General", "RSSIWifi" >>,
      << "Diag", "Errors" >> }

SensorLeafValues ==
    { PyDict("Val" :> PyInt(1)), PyDict("Val" :> PyNone), PyInt(7),
      PyList(<<>>), PyDict("Other" :> PyInt(5)), Tunable(PyInt(1), 0, 2, 1) }

(* A scanned module that is not a mapping *)
MalformedModuleSlot == << "NetworkDuco" >>
MalformedModuleValues == { PyInt(1), PyList(<<>>) }

SensorAllowed(p) ==
    IF p = MalformedModuleSlot THEN MalformedModuleValues ELSE SensorLeafValues

SensorNodeDocs ==
    { PyDict(("Node" :> PyInt(1)) @@ Nest(e)) :
        e \in Entries(SensorSlots \cup { MalformedModuleSlot },
                      MaxSensorLeaves, SensorAllowed) }

InitDiscover ==
    /\ data = Document(PyStr("AA:BB:01"), FixtureConfig, FixtureConfigNodes)
    /\ setup = [ p \in Platforms \cup InfoPlatforms |-> "pending" ]
    /\ numberEntities = <<>>
    /\ sensorEntities = <<>>
    /\ buttonEntities = <<>>
    /\ calls = <<>>
    /\ switchEntities = <<>>
    /\ selectEntities = <<>>
    /\ writes = <<>>
    /\ refreshes = 0
    /\ lastOp = NoOp
    /\ node \in SensorNodeDocs
    /\ discovered = FALSE
    /\ descriptions = <<>>

-----------------------------------------------------------------------------
(* Platform setup passes: each runs once per config entry *)

NumberSetup ==
    /\ setup["number"] = "pending"
    /\ LET r == NumberSetupResult(data)
       IN /\ setup' = [setup EXCEPT !["number"] = r.status]
          /\ numberEntities' = r.entities
    /\ UNCHANGED << data, switchEntities, selectEntities, writes, refreshes,
                    lastOp, node, discovered, descriptions,
                    sensorEntities, buttonEntities, calls >>

SwitchSetup ==
    /\ setup["switch"] = "pending"
    /\ LET r == SwitchSetupResult(data)
       IN /\ setup' = [setup EXCEPT !["switch"] = r.status]
          /\ switchEntities' = r.entities
    /\ UNCHANGED << data, numberEntities, selectEntities, writes, refreshes,
                    lastOp, node, discovered, descriptions,
                    sensorEntities, buttonEntities, calls >>

SelectSetup ==
    /\ setup["select"] = "pending"
    /\ LET r == SelectSetupResult(data)
       IN /\ setup' = [setup EXCEPT !["select"] = r.status]
          /\ selectEntities' = r.entities
    /\ UNCHANGED << data, numberEntities, switchEntities, writes, refreshes,
                    lastOp, node, discovered, descriptions,
                    sensorEntities, buttonEntities, calls >>

Next == NumberSetup \/ SwitchSetup \/ SelectSetup

Spec == Init /\ [][Next]_vars

SpecNode == InitNode /\ [][Next]_vars

-----------------------------------------------------------------------------
(* Operations of a config select entity *)

OptionInputs == { "Auto", "Closed", "Open", "Off", "On", "Bogus" }

(* DucoboxConfigSelectEntity.async_select_option: the label lookup, the
   coordinator write, which may raise, and the refresh request after it *)
ConfigSelectOption(i, option, ok) ==
    /\ setup["select"] = "done"
    /\ Len(writes) < MaxWrites
    /\ selectEntities[i].cls = "DucoboxConfigSelectEntity"
    /\ LET e == selectEntities[i]
       IN IF option \notin DOMAIN e.label_to_val
          THEN /\ lastOp' = [ op |-> "async_select_option", entity |-> i,
                              option |-> option, first |-> Len(calls) + 1,
                              result |-> "KeyError" ]
               /\ UNCHANGED << writes, refreshes, calls >>
          ELSE LET r == WriteThenRefresh("async_set_box_config",
                            << e.module, e.submodule, e.param_key,
                               PyInt(e.label_to_val[option]) >>, ok)
               IN /\ writes' = writes \o SelectSeq(r.calls, IsWrite)
                  /\ refreshes' = refreshes + Len(SelectSeq(r.calls, IsRefresh))
                  /\ calls' = calls \o r.calls
                  /\ lastOp' = [ op |-> "async_select_option", entity |-> i,
                                 option |-> option, first |-> Len(calls) + 1,
                                 result |-> r.result ]
    /\ UNCHANGED << data, setup, numberEntities, switchEntities, selectEntities,
                    node, discovered, descriptions, sensorEntities,
                    buttonEntities >>

NextSelect ==
    \/ SelectSetup
    \/ \E i \in 1..Len(selectEntities), option \in OptionInputs, ok \in BOOLEAN :
         ConfigSelectOption(i, option, ok)

SpecSelect == InitSelect /\ [][NextSelect]_vars

-----------------------------------------------------------------------------
(* Sensor discovery on one node document *)

Discover ==
    /\ ~discovered
    /\ descriptions' = discover_node_sensors(node)
    /\ discovered' = TRUE
    /\ UNCHANGED << data, setup, numberEntities, switchEntities, selectEntities,
                    writes, refreshes, lastOp, node,
                    sensorEntities, buttonEntities, calls >>

NextDiscover == Discover

SpecDiscover == InitDiscover /\ [][NextDiscover]_vars


-----------------------------------------------------------------------------
(* Documents of the sensor and button platforms *)

InfoSlots ==
    { << "Ventilation", "Sensor", "TempOda" >>,
      << "Ventilation", "Fan", "PressSup" >>,
      << "HeatRecovery", "Bypass", "Pos" >>,
      << "General", "Lan", "RssiWifi" >>,
      << "Diag", "SubSystems" >> }

InfoLeafValues ==
    { PyDict("Val" :> PyInt(108)), PyDict("Val" :> PyNone), PyNone }

SubSystem(component, status) ==
    PyDict(("Component" :> PyStr(component)) @@ ("Status" :> PyStr(status)))

SubSystemsValues ==
    { PyNone, PyList(<<>>), PyStr("Ok"),
      PyDict("Status" :> PyStr("Ok")),
      PyList(<< SubSystem("Ventilation", "Ok") >>),
      PyList(<< SubSystem("Ventilation", "Error"), SubSystem("Bypass", "Ok") >>),
      PyList(<< PyDict("Component" :> PyStr("Ventilation")) >>) }

InfoAllowed(p) ==
    IF p = << "Diag", "SubSystems" >> THEN SubSystemsValues ELSE InfoLeafValues

(* info.General.Lan.Mac.Val: no Mac leaf, None, the empty string, an address *)
MacShapes == { "absent", "none", "empty", "known" }

MacEntry(shape) ==
    CASE shape = "absent" -> << >>
      [] shape = "none" -> (<< "General", "Lan", "Mac" >> :> PyDict("Val" :> PyNone))
      [] shape = "empty" -> (<< "General", "Lan", "Mac" >> :> PyDict("Val" :> PyStr("")))
      [] shape = "known" ->
            (<< "General", "Lan", "Mac" >> :> PyDict("Val" :> PyStr("AA:BB:01")))

InfoDocs(shapes, n) ==
    { PyDict(Nest(e @@ MacEntry(shape))) :
        shape \in shapes, e \in Entries(InfoSlots, n, InfoAllowed) }

FixtureNode ==
    PyDict(("Node" :> PyInt(1))
           @@ ("General" :> PyDict(("Type" :> PyDict("Val" :> PyStr("BOX")))
                                   @@ ("UpTime" :> PyDict("Val" :> PyInt(5)))))
           @@ ("Sensor" :> PyDict("Temp" :> PyDict("Val" :> PyInt(1)))))

NodesValues == { PyNone, PyList(<< FixtureNode >>) }

ActionItems ==
    { PyDict(("Action" :> PyStr("ResetFilterTimeRemain")) @@ ("ValType" :> PyStr("None"))),
      PyDict(("Action" :> PyStr("UpdateNodeData")) @@ ("ValType" :> PyStr("None"))),
      PyDict(("Action" :> PyStr("RebootBox")) @@ ("ValType" :> PyStr("None"))),
      PyDict("ValType" :> PyStr("None")),
      PyStr("ScanWifi") }

ActionDocs(n) ==
    { EmptyDict, PyDict("Actions" :> PyNone) }
    \cup { PyDict("Actions" :> PyList(as)) : as \in SeqsUpTo(ActionItems, n) }

FixtureAction ==
    PyDict("Actions" :> PyList(<<
        PyDict(("Action" :> PyStr("ResetFilterTimeRemain")) @@ ("ValType" :> PyStr("None"))),
        PyDict(("Action" :> PyStr("RebootBox")) @@ ("ValType" :> PyStr("None"))) >>))

InfoDocument(info, nodes, action) ==
    PyDict(("info" :> info) @@ ("nodes" :> nodes) @@ ("action" :> action)
           @@ ("config" :> FixtureConfig)
           @@ ("config_nodes" :> FixtureConfigNodes)
           @@ ("action_nodes" :> FixtureActionNodes))

InitInfoRest ==
    /\ setup = [ p \in Platforms \cup InfoPlatforms |-> "pending" ]
    /\ numberEntities = <<>>
    /\ switchEntities = <<>>
    /\ selectEntities = <<>>
    /\ sensorEntities = <<>>
    /\ buttonEntities = <<>>
    /\ writes = <<>>
    /\ refreshes = 0
    /\ calls = <<>>
    /\ lastOp = NoOp
    /\ node = EmptyDict
    /\ discovered = FALSE
    /\ descriptions = <<>>

InitSensor ==
    /\ data \in { InfoDocument(i, ns, FixtureAction) :
                    i \in InfoDocs({ "absent", "known" }, MaxInfoLeaves),
                    ns \in NodesValues }
    /\ InitInfoRest

InitGate ==
    /\ data \in { InfoDocument(i, ns, FixtureAction) :
                    i \in InfoDocs(MacShapes, 1), ns \in NodesValues }
    /\ InitInfoRest

InitButton ==
    /\ data \in { InfoDocument(i, PyNone, a) :
                    i \in InfoDocs({ "absent", "known" }, 0),
                    a \in ActionDocs(MaxActions) }
    /\ InitInfoRest

-----------------------------------------------------------------------------
(* Sensor and button platforms *)

(* The sensor pass storing the node list it iterates back into the document *)
SensorSetup_storing_nodes ==
    /\ setup["sensor"] = "pending"
    /\ LET r == SensorSetupResult(data)
       IN /\ setup' = [setup EXCEPT !["sensor"] = r.status]
          /\ sensorEntities' = r.entities
    /\ data' = PyDict([ k \in DOMAIN data.d \cup { "nodes" } |->
                          IF k = "nodes"
                          THEN PyOr(safe_get(data, << "nodes" >>), PyList(<<>>))
                          ELSE data.d[k] ])
    /\ UNCHANGED << numberEntities, switchEntities, selectEntities, writes,
                    refreshes, lastOp, node, discovered, descriptions,
                    buttonEntities, calls >>

SensorSetup ==
    /\ setup["sensor"] = "pending"
    /\ LET r == SensorSetupResult(data)
       IN /\ setup' = [setup EXCEPT !["sensor"] = r.status]
          /\ sensorEntities' = r.entities
    /\ UNCHANGED << data, numberEntities, switchEntities, selectEntities, writes,
                    refreshes, lastOp, node, discovered, descriptions,
                    buttonEntities, calls >>

ButtonSetup ==
    /\ setup["button"] = "pending"
    /\ LET r == ButtonSetupResult(data)
       IN /\ setup' = [setup EXCEPT !["button"] = r.status]
          /\ buttonEntities' = r.entities
    /\ UNCHANGED << data, numberEntities, switchEntities, selectEntities, writes,
                    refreshes, lastOp, node, discovered, descriptions,
                    sensorEntities, calls >>

(* A read of description.value_fn(coordinator.data) for descriptor i of
   SENSORS; a read changes nothing a later read depends on, so one read per
   behaviour is followed *)
ReadSensor(i) ==
    /\ lastOp = NoOp
    /\ lastOp' = [ op |-> "value_fn", key |-> SENSORS[i].key, index |-> i,
                   result |-> BoxValueFn(SENSORS[i], data) ]
    /\ UNCHANGED << data, setup, numberEntities, switchEntities, selectEntities,
                    writes, refreshes, node, discovered, descriptions,
                    sensorEntities, buttonEntities, calls >>

(* The coordinator call of DucoboxButtonEntity.async_press *)
PressCall(e, ok) ==
    [ call |-> "async_execute_action", args |-> << PyStr(e.description.action) >>,
      raised |-> ~ok ]

(* DucoboxButtonEntity.async_press: one coordinator call, which may raise *)
Press(i, ok) ==
    /\ setup["button"] = "done"
    /\ Len(calls) < MaxWrites
    /\ calls' = Append(calls, PressCall(buttonEntities[i], ok))
    /\ lastOp' = [ op |-> "async_press", entity |-> i, first |-> Len(calls) + 1,
                   result |-> IF ok THEN "ok" ELSE "write_error" ]
    /\ UNCHANGED << data, setup, numberEntities, switchEntities, selectEntities,
                    writes, refreshes, node, discovered, descriptions,
                    sensorEntities, buttonEntities >>

NextSensor == SensorSetup \/ \E i \in 1..Len(SENSORS) : ReadSensor(i)

SpecSensor == InitSensor /\ [][NextSensor]_vars

NextGate == SensorSetup \/ NumberSetup \/ SwitchSetup \/ ButtonSetup

SpecGate == InitGate /\ [][NextGate]_vars

NextButton ==
    \/ ButtonSetup
    \/ \E i \in 1..Len(buttonEntities), ok \in BOOLEAN : Press(i, ok)

SpecButton == InitButton /\ [][NextButton]_vars

-----------------------------------------------------------------------------
(* Write operations on the entities of a configured box *)

(* The config fixture with a bypass temperature target stored in tenths *)
OpsConfig ==
    PyDict(Nest(
        (<< "HeatRecovery", "Bypass", "TimeFilter" >> :> Tunable(PyInt(180), 90, 360, 90))
        @@ (<< "HeatRecovery", "Bypass", "Mode" >> :> Tunable(PyInt(0), 0, 2, 1))
        @@ (<< "HeatRecovery", "Bypass", "TempSupTgtZone1" >> :>
                Tunable(PyInt(210), 100, 255, 1))
        @@ (<< "VentCool", "General", "EnableMonday" >> :> Tunable(PyInt(0), 0, 1, 1))))

InitOps ==
    /\ data = Document(PyStr("AA:BB:01"), OpsConfig, FixtureConfigNodes)
    /\ InitInfoRest

(* Values handed to async_set_native_value: 21.5 and the integer 200 *)
ValueInputs == { PyFloat(2150), PyInt(200) }

(* The effect of one handler on the call log and the counters *)
Perform(r, op) ==
    /\ calls' = calls \o r.calls
    /\ writes' = writes \o SelectSeq(r.calls, IsWrite)
    /\ refreshes' = refreshes + Len(SelectSeq(r.calls, IsRefresh))
    /\ lastOp' = op @@ [ first |-> Len(calls) + 1, result |-> r.result ]
    /\ UNCHANGED << data, setup, numberEntities, switchEntities, selectEntities,
                    node, discovered, descriptions, sensorEntities,
                    buttonEntities >>

(* DucoboxNodeNumberEntity.async_set_native_value *)
NodeNumberSetValue(i, value, ok) ==
    /\ setup["number"] = "done"
    /\ Len(writes) < MaxWrites
    /\ numberEntities[i].cls = "DucoboxNodeNumberEntity"
    /\ LET e == numberEntities[i]
       IN Perform(WriteThenRefresh("async_set_value",
                                   << e.node_id, e.param_key, value >>, ok),
                  [ op |-> "async_set_native_value", platform |-> "number",
                    entity |-> i, value |-> value ])

(* DucoboxBoxNumberEntity.async_set_native_value *)
BoxNumberSetValue(i, value, ok) ==
    /\ setup["number"] = "done"
    /\ Len(writes) < MaxWrites
    /\ numberEntities[i].cls = "DucoboxBoxNumberEntity"
    /\ LET e == numberEntities[i]
       IN Perform(WriteThenRefresh("async_set_box_config",
                                   << e.module, e.submodule, e.param_key,
                                      BoxNumberWriteValue(e, value) >>, ok),
                  [ op |-> "async_set_native_value", platform |-> "number",
                    entity |-> i, value |-> value ])

(* DucoboxBoxSwitchEntity.async_turn_on and async_turn_off *)
SwitchTurn(i, on, ok) ==
    /\ setup["switch"] = "done"
    /\ Len(writes) < MaxWrites
    /\ LET e == switchEntities[i]
       IN Perform(WriteThenRefresh("async_set_box_config",
                                   << e.module, e.submodule, e.param_key,
                                      PyInt(IF on THEN 1 ELSE 0) >>, ok),
                  [ op |-> IF on THEN "async_turn_on" ELSE "async_turn_off",
                    platform |-> "switch", entity |-> i ])

(* DucoboxActionSelectEntity.async_select_option *)
ActionSelectOption(i, option, ok) ==
    /\ setup["select"] = "done"
    /\ Len(writes) < MaxWrites
    /\ selectEntities[i].cls = "DucoboxActionSelectEntity"
    /\ LET e == selectEntities[i]
       IN Perform(WriteThenRefresh("async_set_ventilation_state",
                                   << e.node_id, option.s, e.action >>, ok),
                  [ op |-> "async_select_option", platform |-> "select",
                    entity |-> i, option |-> option.s ])

NextOps ==
    \/ NumberSetup
    \/ SwitchSetup
    \/ SelectSetup
    \/ \E i \in 1..Len(numberEntities), value \in ValueInputs, ok \in BOOLEAN :
         NodeNumberSetValue(i, value, ok)
    \/ \E i \in 1..Len(numberEntities), value \in ValueInputs, ok \in BOOLEAN :
         BoxNumberSetValue(i, value, ok)
    \/ \E i \in 1..Len(switchEntities), on \in BOOLEAN, ok \in BOOLEAN :
         SwitchTurn(i, on, ok)
    \/ \E i \in 1..Len(selectEntities), ok \in BOOLEAN :
         \E option \in IF selectEntities[i].cls = "DucoboxActionSelectEntity"
                       THEN Range(selectEntities[i].options.l) ELSE {} :
             ActionSelectOption(i, option, ok)
    \/ \E i \in 1..Len(selectEntities), option \in { "Auto", "Open" }, ok \in BOOLEAN :
         ConfigSelectOption(i, option, ok)

SpecOps == InitOps /\ [][NextOps]_vars

-----------------------------------------------------------------------------
(* Vocabulary of the properties *)

(* Paths (module, submodule, key) of the box-level config leaves of a document *)
ConfigLeafPaths(d) ==
    LET c == DictGet(d, "config", EmptyDict)
        ms == IF IsDict(c) THEN { m \in DOMAIN c.d : IsDict(c.d[m]) } ELSE {}
    IN UNION { UNION { { << m, s, k >> : k \in DOMAIN c.d[m].d[s].d } :
                        s \in { s \in DOMAIN c.d[m].d : IsDict(c.d[m].d[s]) } } :
               m \in ms }

LeafAt(d, p) == safe_get(d, << "config" >> \o p)

HasBoxEntity(es, cls, p) ==
    \E i \in 1..Len(es) :
        /\ es[i].cls = cls
        /\ << es[i].module, es[i].submodule, es[i].param_key >> = p

IsNumber(p) == HasBoxEntity(numberEntities, "DucoboxBoxNumberEntity", p)
IsSwitch(p) == HasBoxEntity(switchEntities, "DucoboxBoxSwitchEntity", p)
IsSelect(p) == HasBoxEntity(selectEntities, "DucoboxConfigSelectEntity", p)

AllSetupRan == \A p \in Platforms : setup[p] # "pending"

TunableShape(v) ==
    IsDict(v) /\ { "Val", "Min", "Max", "Inc" } \subseteq DOMAIN v.d

BooleanShape(v) ==
    TunableShape(v) /\ v.d["Min"] = PyInt(0) /\ v.d["Max"] = PyInt(1)

EnumRegistered(p) ==
    p \in { << "HeatRecovery", "Bypass", "Mode" >>, << "VentCool", "General", "Mode" >> }

-----------------------------------------------------------------------------
(* Properties of the parameter classifier *)

(* C1: once the number, switch and select passes have run, no box-level
   config leaf has entities from two of the three platforms. *)
C1_ClassifierPartition ==
    AllSetupRan =>
        \A p \in ConfigLeafPaths(data) :
            /\ ~(IsNumber(p) /\ IsSwitch(p))
            /\ ~(IsNumber(p) /\ IsSelect(p))
            /\ ~(IsSwitch(p) /\ IsSelect(p))

(* C2: a box-level config leaf with Val, Min, Max, Inc present, Min == 0 and
   Max == 1 is never exposed as a box number entity. *)
C2_BooleanNotNumber ==
    \A p \in ConfigLeafPaths(data) :
        BooleanShape(LeafAt(data, p)) => ~IsNumber(p)

(* C3: a box-level config leaf of tunable shape whose (module, submodule, key)
   is registered in the enum-label table is never exposed as a box number
   entity, and is a select once the select pass has run. *)
C3_EnumNotNumber ==
    \A p \in ConfigLeafPaths(data) :
        (EnumRegistered(p) /\ TunableShape(LeafAt(data, p))) =>
            /\ ~IsNumber(p)
            /\ (setup["select"] = "done" => IsSelect(p))

(* C4: a box-level config leaf that is shape-boolean and registered in the
   enum-label table never gets a switch entity, and is a select once the
   select pass has run. *)
C4_BooleanSelectPrecedence ==
    \A p \in ConfigLeafPaths(data) :
        (EnumRegistered(p) /\ BooleanShape(LeafAt(data, p))) =>
            /\ ~IsSwitch(p)
            /\ (setup["select"] = "done" => IsSelect(p))

(* C5: a box-level config leaf of tunable shape with Min == Max is never
   classified as number, switch or select, whatever its path. *)
C5_FixedExcluded ==
    \A p \in ConfigLeafPaths(data) :
        (TunableShape(LeafAt(data, p))
         /\ LeafAt(data, p).d["Min"] = LeafAt(data, p).d["Max"]) =>
            ~IsNumber(p) /\ ~IsSwitch(p) /\ ~IsSelect(p)

SkippedSubmodules ==
    { << "General", "Setup" >>, << "General", "Modbus" >>,
      << "General", "AutoRebootComm" >>, << "General", "PublicApi" >>,
      << "Firmware", "General" >>, << "Azure", "Connection" >> }

SkippedKeys ==
    { << "General", "Lan", "Mode" >>, << "General", "Lan", "Dhcp" >>,
      << "General", "Lan", "TimeDucoClientIp" >> }

InSkipSets(p) == << p[1], p[2] >> \in SkippedSubmodules \/ p \in SkippedKeys

(* C6: a box-level config leaf whose (module, submodule) is in the submodule
   skip-set, or whose (module, submodule, key) is in the individual-key
   skip-set, yields neither a number entity nor a switch entity, whatever
   its Min/Max/Inc shape. *)
C6_SkipSetExclusion ==
    \A p \in ConfigLeafPaths(data) :
        InSkipSets(p) => ~IsNumber(p) /\ ~IsSwitch(p)

(* Both passes ran to the end on a document holding a skipped leaf of boolean
   shape, which either pass would otherwise expose. *)
C6_Witness ==
    /\ setup["number"] = "done"
    /\ setup["switch"] = "done"
    /\ \E p \in ConfigLeafPaths(data) :
         /\ << p[1], p[2] >> \in SkippedSubmodules
         /\ BooleanShape(LeafAt(data, p))
    /\ \E p \in ConfigLeafPaths(data) :
         /\ p \in SkippedKeys
         /\ TunableShape(LeafAt(data, p))
         /\ LeafAt(data, p).d["Min"] # LeafAt(data, p).d["Max"]

(* C7: a box-level config value that is not a mapping containing all of Val,
   Min, Max and Inc is never classified as number, switch or select. *)
C7_NonTunableIgnored ==
    \A p \in ConfigLeafPaths(data) :
        ~TunableShape(LeafAt(data, p)) =>
            ~IsNumber(p) /\ ~IsSwitch(p) /\ ~IsSelect(p)

-----------------------------------------------------------------------------
(* Node-level numbers *)

ConfigNodes == NodesOf(data, "config_nodes")

NodeEntityCount(id, k) ==
    Cardinality({ i \in 1..Len(numberEntities) :
        /\ numberEntities[i].cls = "DucoboxNodeNumberEntity"
        /\ numberEntities[i].node_id = PyInt(id)
        /\ numberEntities[i].param_key = k })

TunableNodeCount(id, k) ==
    Cardinality({ j \in 1..Len(ConfigNodes) :
        /\ ConfigNodes[j].d["Node"] = PyInt(id)
        /\ HasKey(ConfigNodes[j], k)
        /\ TunableShape(ConfigNodes[j].d[k]) })

(* C8: after the number pass, every (key, value) of every node of
   config_nodes.Nodes has a node number entity if and only if value is a
   mapping containing Val, Min, Max and Inc: per node id and key there are as
   many node number entities as nodes carrying a tunable value under that key,
   whatever the key and whatever Min and Max are. *)
C8_NodeLevelRule ==
    setup["number"] = "done" =>
        \A id \in NodeIds, k \in Range(KeyOrder) :
            NodeEntityCount(id, k) = TunableNodeCount(id, k)

(* The pass ran on a node holding a fixed leaf (Min == Max) under the key
   Mode, which has an entity, and a value that is no tunable leaf. *)
C8_Witness ==
    /\ setup["number"] = "done"
    /\ \E i \in 1..Len(numberEntities) :
         /\ numberEntities[i].cls = "DucoboxNodeNumberEntity"
         /\ numberEntities[i].param_key = "Mode"
         /\ numberEntities[i].min_value = numberEntities[i].max_value
    /\ \E j \in 1..Len(ConfigNodes), k \in NodeKeys :
         /\ HasKey(ConfigNodes[j], k)
         /\ ~TunableShape(ConfigNodes[j].d[k])

-----------------------------------------------------------------------------
(* Label mapping of config select entities *)

(* The raw integers paired with a label, and the labels paired with a raw
   integer, in the enum-label table entry of path p *)
RawsOfLabel(p, label) ==
    { CONFIG_SELECT_PARAMS(p)[i][1] : i \in { j \in 1..Len(CONFIG_SELECT_PARAMS(p)) :
                                              CONFIG_SELECT_PARAMS(p)[j][2] = label } }

LabelsOfRaw(p, raw) ==
    { CONFIG_SELECT_PARAMS(p)[i][2] : i \in { j \in 1..Len(CONFIG_SELECT_PARAMS(p)) :
                                              CONFIG_SELECT_PARAMS(p)[j][1] = raw } }

EntityPath(e) == << e.module, e.submodule, e.param_key >>

ConfigSelectIndices ==
    { i \in 1..Len(selectEntities) :
        selectEntities[i].cls = "DucoboxConfigSelectEntity" }

(* C9: for every config select entity, a select of a registered label writes
   exactly the one raw integer paired with it, to the entity's own path; the
   current raw Val is presented as exactly the one label paired with it, or
   None when the raw value has no registered label or is absent. *)
C9_LabelMappingExact ==
    /\ \A i \in ConfigSelectIndices :
         LET e == selectEntities[i]
             raw == safe_get(data, << "config" >> \o EntityPath(e) \o << "Val" >>)
             labels == IF raw.t = "int" THEN LabelsOfRaw(EntityPath(e), raw.i) ELSE {}
         IN /\ Cardinality(labels) <= 1
            /\ labels = {} => ConfigCurrentOption(e, data) = PyNone
            /\ \A l \in labels : ConfigCurrentOption(e, data) = PyStr(l)
    /\ (lastOp.op = "async_select_option" /\ lastOp.result \in { "ok", "write_error" }) =>
         LET e == selectEntities[lastOp.entity]
             w == writes[Len(writes)]
         IN /\ RawsOfLabel(EntityPath(e), lastOp.option) # {}
            /\ w.call = "async_set_box_config"
            /\ SubSeq(w.args, 1, 3) = EntityPath(e)
            /\ RawsOfLabel(EntityPath(e), lastOp.option) = { w.args[4].i }

(* A label was selected and written, while one entity presents a label and
   another presents None for a raw value outside the table. *)
C9_Witness ==
    /\ lastOp.op = "async_select_option"
    /\ lastOp.result = "ok"
    /\ lastOp.option = "Open"
    /\ \E i \in ConfigSelectIndices :
         ConfigCurrentOption(selectEntities[i], data) = PyStr("Closed")
    /\ \E i \in ConfigSelectIndices :
         /\ safe_get(data, << "config" >> \o EntityPath(selectEntities[i])
                            \o << "Val" >>) = PyInt(3)
         /\ ConfigCurrentOption(selectEntities[i], data) = PyNone

-----------------------------------------------------------------------------
(* Sensor discovery *)

ScannedModules == { "Sensor", "Ventilation", "NetworkDuco", "General" }

AdministrativeKeys ==
    { "Type", "SubType", "ProductId", "NetworkType", "Addr", "SubAddr",
      "Parent", "Asso", "SwVersion", "SerialBoard", "SerialDuco",
      "Name", "Identify", "LinkMode" }

Discoverable(n, module, key) ==
    /\ module \in ScannedModules
    /\ HasKey(n, module)
    /\ IsDict(n.d[module])
    /\ HasKey(n.d[module], key)
    /\ IsDict(n.d[module].d[key])
    /\ HasKey(n.d[module].d[key], "Val")
    /\ ~(module = "General" /\ key \in AdministrativeKeys)

HasDescriptor(module, key) ==
    \E i \in 1..Len(descriptions) :
        /\ descriptions[i].sensor_key = module \o "_" \o key
        /\ descriptions[i].key = module \o "_" \o key
        /\ descriptions[i].data_path = << module, key >>

(* C10: discover_node_sensors(node) contains a descriptor with identity
   "{module}_{key}" and existence path (module, key) if and only if module is
   one of Sensor, Ventilation, NetworkDuco, General, node[module] is a
   mapping, node[module][key] is a mapping containing Val, and not (module is
   General and key is administrative); nothing else is in the result. *)
C10_DiscoveryExact ==
    discovered =>
        /\ \A module \in DOMAIN node.d \cup ScannedModules, key \in Range(KeyOrder) :
             HasDescriptor(module, key) <=> Discoverable(node, module, key)
        /\ \A i \in 1..Len(descriptions) :
             Discoverable(node, descriptions[i].data_path[1], descriptions[i].data_path[2])

(* Discovery ran on a node with a discoverable leaf and the administrative
   key General.Type carrying Val, which is left out. *)
C10_Witness ==
    /\ discovered
    /\ descriptions # <<>>
    /\ HasKey(node, "General")
    /\ HasKey(node.d["General"], "Type")
    /\ IsDict(node.d["General"].d["Type"])
    /\ HasKey(node.d["General"].d["Type"], "Val")

-----------------------------------------------------------------------------
(* Registry precedence and fallback *)

DescriptorOf(module, key) ==
    { descriptions[i] : i \in { j \in 1..Len(descriptions) :
                                  descriptions[j].data_path = << module, key >> } }

(* Names the fallback gives to the unregistered keys of the node documents *)
FallbackName ==
    (<< "Sensor", "NewSensor" >> :> "Sensor New Sensor")
    @@ (<< "General", "RSSIWifi" >> :> "General RSSI Wifi")

(* C11: every descriptor discovered for a registered (module, key) carries the
   registry entry's name, unit, device class, state class and icon, and its
   value on the node is the registered converter applied to
   extract_val(leaf), or extract_val(leaf) without a converter; every
   descriptor for an unregistered (module, key) is still emitted, with the
   name "{module} {humanized key}", no unit, no device class, no icon, state
   class measurement and value extract_val(leaf). *)
C11_RegistryPrecedence ==
    discovered =>
        \A i \in 1..Len(descriptions) :
            LET desc == descriptions[i]
                p == desc.data_path
                leaf == node.d[p[1]].d[p[2]]
            IN IF p \in DOMAIN NODE_SENSOR_REGISTRY
               THEN LET meta == NODE_SENSOR_REGISTRY[p]
                    IN /\ desc.name = meta.name
                       /\ desc.native_unit_of_measurement = meta.native_unit_of_measurement
                       /\ desc.device_class = meta.device_class
                       /\ desc.state_class = meta.state_class
                       /\ desc.icon = meta.icon
                       /\ NodeValueFn(desc, node) =
                            IF meta.process_fn # NoAttr
                            THEN process_node(meta.process_fn, extract_val(leaf))
                            ELSE extract_val(leaf)
               ELSE /\ p \in DOMAIN FallbackName
                    /\ desc.name = FallbackName[p]
                    /\ desc.native_unit_of_measurement = NoAttr
                    /\ desc.device_class = NoAttr
                    /\ desc.icon = NoAttr
                    /\ desc.state_class = "MEASUREMENT"
                    /\ NodeValueFn(desc, node) = extract_val(leaf)

(* Discovery produced the registered Sensor.Temp, with its converter, and the
   unregistered Sensor.NewSensor, named by the fallback and valued 1. *)
C11_Witness ==
    /\ discovered
    /\ \E d \in DescriptorOf("Sensor", "Temp") :
         /\ d.name = "Temperature"
         /\ d.value_fn.process_fn = "process_node_temperature"
    /\ \E d \in DescriptorOf("Sensor", "NewSensor") :
         /\ d.name = "Sensor New Sensor"
         /\ d.state_class = "MEASUREMENT"
         /\ NodeValueFn(d, node) = PyInt(1)

-----------------------------------------------------------------------------
(* Box-level sensors *)

BoxSensorIndices(key) ==
    { j \in 1..Len(sensorEntities) :
        /\ sensorEntities[j].cls = "DucoboxSensorEntity"
        /\ sensorEntities[j].description.key = key }

SensorIndex(key) == CHOOSE i \in 1..Len(SENSORS) : SENSORS[i].key = key

(* C13: after a sensor pass that ran to the end, each descriptor of SENSORS
   has exactly one box sensor entity if safe_get(document, *data_path) is not
   None and none otherwise; descriptors after a skipped one still get their
   entities. *)
C13_BoxCapabilityGate ==
    setup["sensor"] = "done" =>
        \A i \in 1..Len(SENSORS) :
            Cardinality(BoxSensorIndices(SENSORS[i].key)) =
                IF safe_get(data, SENSORS[i].data_path) # PyNone THEN 1 ELSE 0

(* The pass ran on a document without TempOda, with PressSup explicitly None
   and with a bypass position: the first two are skipped, the later descriptor
   BypassPos has its entity. *)
C13_Witness ==
    /\ setup["sensor"] = "done"
    /\ safe_get(data, << "info", "Ventilation" >>) # PyNone
    /\ safe_get(data, << "info", "Ventilation", "Sensor", "TempOda" >>) = PyNone
    /\ BoxSensorIndices("TempOda") = {}
    /\ HasKey(data.d["info"].d["Ventilation"], "Fan")
    /\ HasKey(data.d["info"].d["Ventilation"].d["Fan"], "PressSup")
    /\ BoxSensorIndices("PressSup") = {}
    /\ BoxSensorIndices("BypassPos") # {}
    /\ SensorIndex("TempOda") < SensorIndex("BypassPos")

-----------------------------------------------------------------------------
(* Box-level value functions *)

(* Some step of the path is a key missing from the mapping reached so far *)
RECURSIVE PathAbsent(_, _)
PathAbsent(d, path) ==
    /\ path # <<>>
    /\ IsDict(d)
    /\ \/ ~HasKey(d, Head(path))
       \/ HasKey(d, Head(path)) /\ PathAbsent(d.d[Head(path)], Tail(path))

(* C14: the value function of any descriptor of SENSORS, applied to a document
   in which its path is absent, returns None and does not raise. *)
C14_MissingDataIsNone ==
    (/\ lastOp.op = "value_fn"
     /\ PathAbsent(data, SENSORS[lastOp.index].data_path))
        => lastOp.result = [ raised |-> FALSE, value |-> PyNone ]

(* A descriptor with a converter was read on a document whose info section is
   empty, and returned None. *)
C14_Witness ==
    /\ lastOp.op = "value_fn"
    /\ lastOp.key = "TempOda"
    /\ SENSORS[lastOp.index].value_fn.process_fn = "process_temperature"
    /\ data.d["info"] = EmptyDict
    /\ lastOp.result = [ raised |-> FALSE, value |-> PyNone ]

(* info.Diag.SubSystems, or None when a step of the path is missing *)
SubSystemsField ==
    IF /\ HasKey(data, "info") /\ IsDict(data.d["info"])
       /\ HasKey(data.d["info"], "Diag") /\ IsDict(data.d["info"].d["Diag"])
       /\ HasKey(data.d["info"].d["Diag"], "SubSystems")
    THEN data.d["info"].d["Diag"].d["SubSystems"]
    ELSE PyNone

(* C15: the DiagStatus descriptor returns the Status of the first element of
   info.Diag.SubSystems (None when that element carries no Status) when the
   field is a non-empty list, and returns None without raising when the field
   is absent, not a list, or an empty list. *)
C15_DiagStatus ==
    (lastOp.op = "value_fn" /\ lastOp.key = "DiagStatus") =>
        /\ ~lastOp.result.raised
        /\ LET ss == SubSystemsField
           IN IF ss.t = "list" /\ Len(ss.l) > 0
              THEN lastOp.result.value =
                     IF "Status" \in DOMAIN ss.l[1].d THEN ss.l[1].d["Status"]
                     ELSE PyNone
              ELSE lastOp.result.value = PyNone

(* DiagStatus was read on a list of two subsystems whose first Status is
   Error and whose second is Ok, and returned Error. *)
C15_Witness ==
    /\ lastOp.op = "value_fn"
    /\ lastOp.key = "DiagStatus"
    /\ SubSystemsField.t = "list"
    /\ Len(SubSystemsField.l) = 2
    /\ SubSystemsField.l[2].d["Status"] = PyStr("Ok")
    /\ lastOp.result = [ raised |-> FALSE, value |-> PyStr("Error") ]

-----------------------------------------------------------------------------
(* Unknown-MAC gate *)

(* info.General.Lan.Mac.Val is absent, None or empty *)
MacUnknown ==
    \/ PathAbsent(data, << "info", "General", "Lan", "Mac", "Val" >>)
    \/ /\ ~PathAbsent(data, << "info", "General", "Lan", "Mac", "Val" >>)
       /\ data.d["info"].d["General"].d["Lan"].d["Mac"].d["Val"]
             \in { PyNone, PyStr("") }

GatedPlatforms == { "sensor", "number", "switch", "button" }

(* C16: when info.General.Lan.Mac.Val is absent, None or empty, the sensor,
   number, switch and button passes return early and the entity list of each
   stays empty, whatever else the document contains. *)
C16_UnknownMacGate ==
    MacUnknown =>
        /\ \A p \in GatedPlatforms : setup[p] \in { "pending", "skipped" }
        /\ sensorEntities = <<>>
        /\ numberEntities = <<>>
        /\ switchEntities = <<>>
        /\ buttonEntities = <<>>

(* All four passes ran on a document whose MAC is the empty string and which
   carries a box sensor leaf, a node, config leaves and box actions. *)
C16_Witness ==
    /\ MacUnknown
    /\ safe_get(data, << "info", "General", "Lan", "Mac", "Val" >>) = PyStr("")
    /\ \A p \in GatedPlatforms : setup[p] = "skipped"
    /\ safe_get(data, << "info", "Ventilation", "Sensor", "TempOda", "Val" >>) = PyInt(108)
    /\ safe_get(data, << "nodes" >>) # PyNone
    /\ safe_get(data, << "action", "Actions" >>) # PyNone
    /\ safe_get(data, << "config", "HeatRecovery", "Bypass", "TimeFilter" >>) # PyNone

-----------------------------------------------------------------------------
(* Buttons *)

ButtonActions == { "ResetFilterTimeRemain", "UpdateNodeData", "ReconnectWifi", "ScanWifi" }

(* name is the Action of some mapping in action.Actions of the document *)
ActionListed(name) ==
    /\ ~PathAbsent(data, << "action", "Actions" >>)
    /\ data.d["action"].d["Actions"].t = "list"
    /\ \E j \in 1..Len(data.d["action"].d["Actions"].l) :
         LET act == data.d["action"].d["Actions"].l[j]
         IN IsDict(act) /\ HasKey(act, "Action") /\ act.d["Action"] = PyStr(name)

ButtonIndices(name) ==
    { j \in 1..Len(buttonEntities) : buttonEntities[j].description.action = name }

(* C19: after a button pass that ran to the end, each BOX_BUTTONS action has
   one button if it is the Action of some mapping in action.Actions and none
   otherwise; no button carries any other action, RebootBox included; a press
   makes exactly one coordinator call, async_execute_action with the pressed
   button's action name. *)
C19_ButtonAvailability ==
    /\ setup["button"] = "done" =>
         /\ \A name \in ButtonActions :
              Cardinality(ButtonIndices(name)) = IF ActionListed(name) THEN 1 ELSE 0
         /\ \A j \in 1..Len(buttonEntities) :
              buttonEntities[j].description.action \in ButtonActions
    /\ lastOp.op = "async_press" =>
         /\ Len(calls) = lastOp.first
         /\ calls[lastOp.first].call = "async_execute_action"
         /\ calls[lastOp.first].args =
              << PyStr(buttonEntities[lastOp.entity].description.action) >>

(* The pass ran on a document listing RebootBox and ResetFilterTimeRemain: the
   only button is the reset one, and it was pressed. *)
C19_Witness ==
    /\ setup["button"] = "done"
    /\ ActionListed("RebootBox")
    /\ ActionListed("ResetFilterTimeRemain")
    /\ Len(buttonEntities) = 1
    /\ buttonEntities[1].description.key = "reset_filter_time_remain"
    /\ lastOp.op = "async_press"
    /\ calls[Len(calls)].args = << PyStr("ResetFilterTimeRemain") >>

-----------------------------------------------------------------------------
(* Write then refresh *)

WriteOps ==
    { "async_set_native_value", "async_turn_on", "async_turn_off",
      "async_select_option" }

(* The coordinator calls the last operation made, in order *)
OpCalls == SubSeq(calls, lastOp.first, Len(calls))

OpEntity ==
    CASE lastOp.platform = "number" -> numberEntities[lastOp.entity]
      [] lastOp.platform = "switch" -> switchEntities[lastOp.entity]
      [] lastOp.platform = "select" -> selectEntities[lastOp.entity]

(* The write call c is addressed to entity e: its node id, or its (module,
   submodule, key) path *)
AddressedTo(c, e) ==
    CASE e.cls = "DucoboxNodeNumberEntity" ->
            /\ c.call = "async_set_value"
            /\ c.args[1] = e.node_id /\ c.args[2] = e.param_key
      [] e.cls = "DucoboxActionSelectEntity" ->
            /\ c.call = "async_set_ventilation_state"
            /\ c.args[1] = e.node_id /\ c.args[3] = e.action
      [] OTHER ->
            /\ c.call = "async_set_box_config"
            /\ SubSeq(c.args, 1, 3) = << e.module, e.submodule, e.param_key >>

(* The operations of the three platforms that reach their write *)
WroteLast ==
    /\ lastOp.op \in WriteOps
    /\ "platform" \in DOMAIN lastOp
    /\ lastOp.result \in { "ok", "write_error" }

(* C17: every number set-value, switch turn-on/turn-off and select option
   operation makes exactly one coordinator write call, first of all its
   calls and addressed to the entity's own node id or path; when that write
   returned, the operation's calls are the write followed by exactly one
   refresh request. *)
C17_WriteThenRefresh ==
    WroteLast =>
        /\ Len(OpCalls) >= 1
        /\ IsWrite(OpCalls[1])
        /\ AddressedTo(OpCalls[1], OpEntity)
        /\ Cardinality({ j \in 1..Len(OpCalls) : IsWrite(OpCalls[j]) }) = 1
        /\ ~OpCalls[1].raised =>
             /\ Len(OpCalls) = 2
             /\ IsRefresh(OpCalls[2])
             /\ lastOp.result = "ok"

(* A node number entity wrote 200 to its own node id and key and then
   requested a refresh. *)
C17_Witness ==
    /\ WroteLast
    /\ lastOp.result = "ok"
    /\ OpEntity.cls = "DucoboxNodeNumberEntity"
    /\ calls = << [ call |-> "async_set_value",
                    args |-> << PyInt(2), "Co2SetPoint", PyInt(200) >>,
                    raised |-> FALSE ],
                  RefreshCall >>

(* C18: when the coordinator write of a number, switch or select operation
   raises, the operation ends with that error, its only call is that one
   write, and the number of refresh requests is what it was before. *)
C18_WriteFailureNotRetried ==
    (/\ lastOp.op \in WriteOps
     /\ "platform" \in DOMAIN lastOp
     /\ \E j \in 1..Len(OpCalls) : OpCalls[j].raised)
        => /\ lastOp.result = "write_error"
           /\ Len(OpCalls) = 1
           /\ IsWrite(OpCalls[1])
           /\ refreshes = Len(SelectSeq(SubSeq(calls, 1, lastOp.first - 1), IsRefresh))

(* A switch write raised after an earlier operation had written and
   refreshed: one more call, no more refresh. *)
C18_Witness ==
    /\ lastOp.op = "async_turn_on"
    /\ lastOp.result = "write_error"
    /\ lastOp.first = 3
    /\ Len(calls) = 3
    /\ calls[3].raised
    /\ refreshes = 1

-----------------------------------------------------------------------------
(* Temperature scaling of box numbers *)

(* Box-level number parameters stored in tenths of a degree *)
TemperaturePaths == { << "HeatRecovery", "Bypass", "TempSupTgtZone1" >> }

(* _attr_native_unit_of_measurement, None unless the entity sets it *)
NativeUnit(e) ==
    IF "native_unit_of_measurement" \in DOMAIN e
    THEN e.native_unit_of_measurement ELSE NoAttr

(* raw / 10 and v * 10, on floats carried in hundredths *)
Tenth(raw) == PyFloat(10 * raw.i)
TimesTen(v) == IF v.t = "float" THEN v.h \div 10 ELSE 10 * v.i

BoxNumberIndices ==
    { i \in 1..Len(numberEntities) : numberEntities[i].cls = "DucoboxBoxNumberEntity" }

(* C20: a box number entity of a temperature parameter has unit Celsius, min,
   max and step equal to the raw bounds divided by 10, native value raw Val
   divided by 10, and a set of v writes v * 10; every other box number entity
   has no unit and reports the raw Val unchanged. *)
C20_TemperatureScaling ==
    /\ \A i \in BoxNumberIndices :
         LET e == numberEntities[i]
             leaf == safe_get(data, << "config", e.module, e.submodule, e.param_key >>)
         IN IF EntityPath(e) \in TemperaturePaths
            THEN /\ NativeUnit(e) = "CELSIUS"
                 /\ NumEq(e.min_value, Tenth(leaf.d["Min"]))
                 /\ NumEq(e.max_value, Tenth(leaf.d["Max"]))
                 /\ NumEq(e.step, Tenth(leaf.d["Inc"]))
                 /\ NumEq(BoxNativeValue(e, data), Tenth(leaf.d["Val"]))
            ELSE /\ NativeUnit(e) = NoAttr
                 /\ BoxNativeValue(e, data) = leaf.d["Val"]
    /\ (/\ lastOp.op = "async_set_native_value"
        /\ lastOp.entity \in BoxNumberIndices
        /\ EntityPath(numberEntities[lastOp.entity]) \in TemperaturePaths)
          => NumEq(calls[lastOp.first].args[4], PyInt(TimesTen(lastOp.value)))

-----------------------------------------------------------------------------
(* Unique IDs *)

(* Longest node list of the documents of the unique-id check *)
MaxIdNodes == 2

EnumAction(name) ==
    PyDict(("Action" :> PyStr(name))
           @@ ("Enum" :> PyList(<< PyStr("AUTO"), PyStr("MAN1") >>)))

(* /config/nodes entries: one or two tunable parameters under a node id *)
IdConfigNodes ==
    { PyDict(("Node" :> PyInt(id)) @@ e) :
        id \in NodeIds,
        e \in { "Co2SetPoint" :> Tunable(PyInt(1), 0, 2, 1),
                ("Co2SetPoint" :> Tunable(PyInt(1), 0, 2, 1))
                @@ ("Mode" :> Tunable(PyInt(0), 0, 2, 1)) } }

(* /action/nodes entries: a node id and a list of enum actions *)
IdActionNodes ==
    { PyDict(("Node" :> PyInt(id)) @@ ("Actions" :> PyList(as))) :
        id \in NodeIds,
        as \in SeqsUpTo({ EnumAction("SetVentilationState"),
                          EnumAction("SetIdentify") }, 2) }

(* /info/nodes entries: a node id and one or two sensor values *)
IdSensorNodes ==
    { PyDict(("Node" :> PyInt(id)) @@ ("Sensor" :> PyDict(e))) :
        id \in NodeIds,
        e \in { "Temp" :> PyDict("Val" :> PyInt(215)),
                ("Temp" :> PyDict("Val" :> PyInt(215)))
                @@ ("Rh" :> PyDict("Val" :> PyInt(50))) } }

IdsDocument(config_nodes, action_nodes, nodes) ==
    PyDict(("info" :> PyDict(Nest(MacEntry("known")
                                  @@ (<< "General", "Lan", "RssiWifi" >>
                                        :> PyDict("Val" :> PyInt(108))))))
           @@ ("config" :> FixtureConfig)
           @@ ("config_nodes" :> PyDict("Nodes" :> PyList(config_nodes)))
           @@ ("action_nodes" :> PyDict("Nodes" :> PyList(action_nodes)))
           @@ ("nodes" :> PyList(nodes))
           @@ ("action" :> FixtureAction))

(* One node list varies at a time; the other two are empty *)
IdsDocs ==
    { IdsDocument(cn, << >>, << >>) : cn \in SeqsUpTo(IdConfigNodes, MaxIdNodes) }
    \cup { IdsDocument(<< >>, an, << >>) : an \in SeqsUpTo(IdActionNodes, MaxIdNodes) }
    \cup { IdsDocument(<< >>, << >>, ns) : ns \in SeqsUpTo(IdSensorNodes, MaxIdNodes) }

InitIds == data \in IdsDocs /\ InitInfoRest

NextIds ==
    NumberSetup \/ SwitchSetup \/ SelectSetup \/ SensorSetup \/ ButtonSetup

SpecIds == InitIds /\ [][NextIds]_vars

(* The node ids of a node list, in list order *)
NodeIdsOf(ns) == [ i \in 1..Len(ns) |-> DictGet(ns[i], "Node", PyNone) ]

Distinct(s) == \A i, j \in 1..Len(s) : i # j => s[i] # s[j]

NodeIdsUnique ==
    /\ Distinct(NodeIdsOf(NodesOf(data, "config_nodes")))
    /\ Distinct(NodeIdsOf(NodesOf(data, "action_nodes")))
    /\ Distinct(NodeIdsOf(LET v == safe_get(data, << "nodes" >>)
                          IN IF v.t = "list" THEN v.l ELSE <<>>))

UniqueIds(entities) == [ i \in 1..Len(entities) |-> entities[i].unique_id ]

(* The other four passes give pairwise distinct unique IDs *)
IdsDistinctOutsideSelect ==
    NodeIdsUnique =>
        /\ Distinct(UniqueIds(numberEntities))
        /\ Distinct(UniqueIds(switchEntities))
        /\ Distinct(UniqueIds(sensorEntities))
        /\ Distinct(UniqueIds(buttonEntities))

(* C21: for a document whose node ids are unique within each node list, the
   entities added by one platform setup pass (sensor, number, switch, select,
   button) have pairwise distinct unique IDs. *)
C21_UniqueIds ==
    NodeIdsUnique =>
        /\ Distinct(UniqueIds(numberEntities))
        /\ Distinct(UniqueIds(switchEntities))
        /\ Distinct(UniqueIds(selectEntities))
        /\ Distinct(UniqueIds(sensorEntities))
        /\ Distinct(UniqueIds(buttonEntities))

-----------------------------------------------------------------------------
(* Values the entities report *)

PyBool(b) == [ t |-> "bool", b |-> b ]

(* The poller hands the coordinator a new document in place of the old one *)
Replace(docs) ==
    /\ \E d \in docs : data' = d
    /\ lastOp' = [ op |-> "update" ]
    /\ UNCHANGED << setup, numberEntities, switchEntities, selectEntities,
                    writes, refreshes, node, discovered, descriptions,
                    sensorEntities, buttonEntities, calls >>

(* is_on as a comparison of the raw value with 1 *)
SwitchIsOn_equals_one(e, d) ==
    LET raw == safe_get(d, << "config", e.module, e.submodule, e.param_key, "Val" >>)
    IN IF raw # PyNone THEN PyBool(raw = PyInt(1)) ELSE PyNone

(* DucoboxBoxSwitchEntity.is_on *)
SwitchIsOn(e, d) ==
    LET raw == safe_get(d, << "config", e.module, e.submodule, e.param_key, "Val" >>)
    IN IF raw # PyNone THEN PyBool(Truthy(raw)) ELSE PyNone

(* A read of is_on of switch entity i *)
ReadSwitch(i) ==
    /\ setup["switch"] = "done"
    /\ lastOp' = [ op |-> "is_on", platform |-> "switch", entity |-> i,
                   result |-> SwitchIsOn(switchEntities[i], data) ]
    /\ UNCHANGED << data, setup, numberEntities, switchEntities, selectEntities,
                    writes, refreshes, node, discovered, descriptions,
                    sensorEntities, buttonEntities, calls >>

-----------------------------------------------------------------------------
(* Switch entities over documents that change under them *)

SwitchLeafValues ==
    { Tunable(PyInt(0), 0, 1, 1), Tunable(PyInt(1), 0, 1, 1),
      Tunable(PyInt(2), 0, 1, 1), Tunable(PyNone, 0, 1, 1),
      PyDict(("Min" :> PyInt(0)) @@ ("Max" :> PyInt(1)) @@ ("Inc" :> PyInt(1))) }

SwitchConfigs ==
    { PyDict(Nest(<< "HeatRecovery", "Bypass", "Enable" >> :> Tunable(PyInt(1), 0, 1, 1))) }
    \cup { PyDict(Nest((<< "HeatRecovery", "Bypass", "Enable" >> :> Tunable(PyInt(1), 0, 1, 1))
                       @@ (<< "VentCool", "General", "EnableMonday" >> :> v))) :
             v \in SwitchLeafValues }

SwitchDocs ==
    { Document(PyStr("AA:BB:01"), c, FixtureConfigNodes) : c \in SwitchConfigs }

InitSwitch == data \in SwitchDocs /\ InitInfoRest

NextSwitch ==
    \/ SwitchSetup
    \/ Replace(SwitchDocs)
    \/ \E i \in 1..Len(switchEntities) : ReadSwitch(i)
    \/ \E i \in 1..Len(switchEntities), on \in BOOLEAN, ok \in BOOLEAN :
         SwitchTurn(i, on, ok)

SpecSwitch == InitSwitch /\ [][NextSwitch]_vars

(* The leaf the document now holds at the path of entity e, None if absent *)
LeafNow(e) == safe_get(data, << "config" >> \o EntityPath(e))

ValAbsentOrNone(leaf) ==
    \/ ~IsDict(leaf)
    \/ ~HasKey(leaf, "Val")
    \/ leaf.d["Val"] = PyNone

(* C22: a box switch entity reports None when the Val at its (module,
   submodule, key) path is absent or None, otherwise on exactly when Val is
   non-zero; turn-on writes 1 and turn-off writes 0 to that same path, and the
   operation writes to no other path. *)
C22_SwitchSemantics ==
    /\ lastOp.op = "is_on" =>
         LET leaf == LeafNow(switchEntities[lastOp.entity])
         IN IF ValAbsentOrNone(leaf)
            THEN lastOp.result = PyNone
            ELSE lastOp.result = PyBool(leaf.d["Val"] # PyInt(0))
    /\ lastOp.op \in { "async_turn_on", "async_turn_off" } =>
         LET e == switchEntities[lastOp.entity]
         IN /\ OpCalls[1].call = "async_set_box_config"
            /\ OpCalls[1].args =
                 << e.module, e.submodule, e.param_key,
                    PyInt(IF lastOp.op = "async_turn_on" THEN 1 ELSE 0) >>
            /\ \A j \in 2..Len(OpCalls) : IsRefresh(OpCalls[j])

(* The EnableMonday switch was turned off with one write of 0 to its path;
   the document was then replaced by one with Val 2 at that path, and the
   switch reads on. *)
C22_Witness ==
    /\ lastOp.op = "is_on"
    /\ EntityPath(switchEntities[lastOp.entity]) = << "VentCool", "General", "EnableMonday" >>
    /\ LeafNow(switchEntities[lastOp.entity]) = Tunable(PyInt(2), 0, 1, 1)
    /\ lastOp.result = PyBool(TRUE)
    /\ calls = << [ call |-> "async_set_box_config",
                    args |-> << "VentCool", "General", "EnableMonday", PyInt(0) >>,
                    raised |-> FALSE ],
                  RefreshCall >>

-----------------------------------------------------------------------------
(* safe_get on arbitrary documents *)

(* Longest path handed to safe_get *)
MaxPath == 3

GetKeys == { "Sensor", "Temp", "Val" }

GetPaths == SeqsUpTo(GetKeys, MaxPath)

(* Documents of depth up to three with scalars, None and lists inside *)
GetDocs ==
    { PyNone, PyInt(42), PyList(<< PyInt(1), PyInt(2) >>), EmptyDict,
      PyDict("Sensor" :> PyInt(42)),
      PyDict("Sensor" :> PyNone),
      PyDict("Sensor" :> PyList(<< PyDict("Temp" :> PyInt(1)) >>)),
      PyDict("Sensor" :> PyDict("Temp" :> PyInt(197))),
      PyDict("Sensor" :> PyDict("Temp" :> PyDict("Val" :> PyInt(197)))),
      PyDict("Sensor" :> PyDict("Temp" :> PyDict("Val" :> PyNone))),
      PyDict("Sensor" :> PyDict("Temp" :> PyDict("Val" :> PyDict("Val" :> PyInt(5))))),
      PyDict(("Temp" :> PyDict("Val" :> PyInt(5)))
             @@ ("Val" :> PyDict("Sensor" :> PyDict("Sensor" :> PyStr("x"))))) }

InitGet == data \in GetDocs /\ InitInfoRest

(* One call safe_get(coordinator.data, *path) *)
SafeGet(path) ==
    /\ lastOp = NoOp
    /\ lastOp' = [ op |-> "safe_get", path |-> path,
                   result |-> safe_get(data, path) ]
    /\ UNCHANGED << data, setup, numberEntities, switchEntities, selectEntities,
                    writes, refreshes, node, discovered, descriptions,
                    sensorEntities, buttonEntities, calls >>

NextGet == \E path \in GetPaths : SafeGet(path)

SpecGet == InitGet /\ [][NextGet]_vars

(* x is a mapping that has key k *)
Holds(x, k) == x.t = "dict" /\ k \in DOMAIN x.d

(* C23: safe_get(document, *path) returns the value at the path when every
   step is a key of a mapping, None when the document is None, a step is
   missing or the value reached before a step is not a mapping (a list
   included), and the document itself for the empty path. *)
C23_SafeGetTotal ==
    lastOp.op = "safe_get" =>
        LET p == lastOp.path
            r == lastOp.result
        IN CASE Len(p) = 0 -> r = data
             [] Len(p) = 1 ->
                    r = IF Holds(data, p[1]) THEN data.d[p[1]] ELSE PyNone
             [] Len(p) = 2 ->
                    r = IF /\ Holds(data, p[1])
                           /\ Holds(data.d[p[1]], p[2])
                        THEN data.d[p[1]].d[p[2]] ELSE PyNone
             [] Len(p) = 3 ->
                    r = IF /\ Holds(data, p[1])
                           /\ Holds(data.d[p[1]], p[2])
                           /\ Holds(data.d[p[1]].d[p[2]], p[3])
                        THEN data.d[p[1]].d[p[2]].d[p[3]] ELSE PyNone
             [] OTHER ->
                    ~(/\ Holds(data, p[1])
                      /\ Holds(data.d[p[1]], p[2])
                      /\ Holds(data.d[p[1]].d[p[2]], p[3]))
                        => r = PyNone

(* The walk went through a list on its way and gave None. *)
C23_Witness ==
    /\ lastOp.op = "safe_get"
    /\ lastOp.path = << "Sensor", "Temp" >>
    /\ data = PyDict("Sensor" :> PyList(<< PyDict("Temp" :> PyInt(1)) >>))
    /\ lastOp.result = PyNone

-----------------------------------------------------------------------------
(* Converters and node value functions *)

BoxConverters ==
    { "process_temperature", "process_pressure", "process_bypass_position",
      "process_speed", "process_rssi", "process_uptime",
      "process_timefilterremain" }

NodeConverters ==
    { "process_node_temperature", "process_node_humidity", "process_node_co2",
      "process_node_iaq" }

ConverterInputs ==
    { PyNone, PyInt(108), PyFloat(4960), PyStr("50.7"), PyStr("n/a") }

(* The nodes a descriptor is applied to: the one it was discovered from and
   what later polls made of it *)
ConvertNodes ==
    { PyDict(("Node" :> PyInt(1))
             @@ ("Sensor" :> PyDict(("Temp" :> PyDict("Val" :> PyInt(215)))
                                    @@ ("NewSensor" :> PyDict("Val" :> PyInt(123)))))
             @@ ("Ventilation" :> PyDict("State" :> PyDict("Val" :> PyStr("AUTO"))))),
      PyDict(("Node" :> PyInt(1))
             @@ ("Sensor" :> PyDict("Temp" :> PyDict("Val" :> PyNone)))),
      PyDict(("Node" :> PyInt(1))
             @@ ("Sensor" :> PyDict("NewSensor" :> PyDict("Val" :> PyInt(5))))),
      PyDict(("Node" :> PyInt(1)) @@ ("Sensor" :> PyInt(7))),
      PyDict("Node" :> PyInt(1)) }

InitConvert ==
    /\ data = Document(PyStr("AA:BB:01"), FixtureConfig, FixtureConfigNodes)
    /\ node \in ConvertNodes
    /\ setup = [ p \in Platforms \cup InfoPlatforms |-> "pending" ]
    /\ numberEntities = <<>>
    /\ switchEntities = <<>>
    /\ selectEntities = <<>>
    /\ sensorEntities = <<>>
    /\ buttonEntities = <<>>
    /\ writes = <<>>
    /\ refreshes = 0
    /\ calls = <<>>
    /\ lastOp = NoOp
    /\ discovered = FALSE
    /\ descriptions = <<>>

(* A poll brings another document for the node *)
NodeUpdate ==
    /\ \E n \in ConvertNodes : node' = n
    /\ lastOp' = [ op |-> "update" ]
    /\ UNCHANGED << data, setup, numberEntities, switchEntities, selectEntities,
                    writes, refreshes, discovered, descriptions,
                    sensorEntities, buttonEntities, calls >>

(* description.value_fn(node) for descriptor j of the discovered list *)
ReadNodeValue(j) ==
    /\ discovered
    /\ lastOp' = [ op |-> "node_value_fn", index |-> j,
                   result |-> NodeValueFn(descriptions[j], node) ]
    /\ UNCHANGED << data, setup, numberEntities, switchEntities, selectEntities,
                    writes, refreshes, node, discovered, descriptions,
                    sensorEntities, buttonEntities, calls >>

(* One call of the converter named fn *)
Convert(fn, x) ==
    /\ lastOp' = [ op |-> "convert", fn |-> fn, input |-> x,
                   result |-> IF fn \in NodeConverters
                              THEN Returned(process_node(fn, x))
                              ELSE process_box(fn, x) ]
    /\ UNCHANGED << data, setup, numberEntities, switchEntities, selectEntities,
                    writes, refreshes, node, discovered, descriptions,
                    sensorEntities, buttonEntities, calls >>

NextConvert ==
    \/ Discover
    \/ NodeUpdate
    \/ \E j \in 1..Len(descriptions) : ReadNodeValue(j)
    \/ \E fn \in BoxConverters \cup NodeConverters, x \in ConverterInputs :
         Convert(fn, x)

SpecConvert == InitConvert /\ [][NextConvert]_vars

(* The node holds no value at (module, key) *)
ReadingAbsent(n, module, key) ==
    ~(/\ n.t = "dict" /\ module \in DOMAIN n.d
      /\ n.d[module].t = "dict" /\ key \in DOMAIN n.d[module].d)

(* C24: every unit converter returns None, and does not raise, when given
   None; the value function of a node descriptor returns None when its
   (module, key) is absent from the node it is applied to. *)
C24_ConverterTotality ==
    /\ (lastOp.op = "convert" /\ lastOp.input = PyNone)
         => lastOp.result = [ raised |-> FALSE, value |-> PyNone ]
    /\ lastOp.op = "node_value_fn" =>
         LET desc == descriptions[lastOp.index]
         IN ReadingAbsent(node, desc.data_path[1], desc.data_path[2])
              => lastOp.result = PyNone

(* The Sensor_Temp descriptor, discovered on a node that had the reading, is
   read on a later document of the node without a Sensor.Temp entry. *)
C24_Witness ==
    /\ lastOp.op = "node_value_fn"
    /\ descriptions[lastOp.index].key = "Sensor_Temp"
    /\ node = PyDict(("Node" :> PyInt(1))
                     @@ ("Sensor" :> PyDict("NewSensor" :> PyDict("Val" :> PyInt(5)))))
    /\ lastOp.result = PyNone

-----------------------------------------------------------------------------
(* Malformed items in the node lists *)

GoodLeaf == Tunable(PyInt(1), 0, 2, 1)

(* /config/nodes entries: well-formed, without a Node id, with a leaf whose
   Min is None, with a value that is no leaf *)
ItemConfigNodes ==
    { PyDict(("Node" :> PyInt(2)) @@ ("Co2SetPoint" :> GoodLeaf)),
      PyDict("Co2SetPoint" :> GoodLeaf),
      PyDict(("Node" :> PyInt(1))
             @@ ("Co2SetPoint" :> PyDict(("Val" :> PyInt(1)) @@ ("Min" :> PyNone)
                                         @@ ("Max" :> PyInt(2)) @@ ("Inc" :> PyInt(1))))),
      PyDict(("Node" :> PyInt(1)) @@ ("Co2SetPoint" :> PyInt(5))) }

(* /action/nodes entries: well-formed, without a Node id, with an enum action
   that has no Action name *)
ItemActionNodes ==
    { PyDict(("Node" :> PyInt(2))
             @@ ("Actions" :> PyList(<< EnumAction("SetVentilationState") >>))),
      PyDict("Actions" :> PyList(<< EnumAction("SetVentilationState") >>)),
      PyDict(("Node" :> PyInt(1))
             @@ ("Actions" :> PyList(<< PyDict("Enum" :> PyList(<< PyStr("AUTO") >>)) >>))) }

ItemDocs ==
    { IdsDocument(cn, << >>, << >>) : cn \in SeqsUpTo(ItemConfigNodes, MaxIdNodes) }
    \cup { IdsDocument(<< >>, an, << >>) : an \in SeqsUpTo(ItemActionNodes, MaxIdNodes) }

InitItems == data \in ItemDocs /\ InitInfoRest

SpecItems == InitItems /\ [][NextIds]_vars

(* The well-formed node 2 of a node list *)
HasGoodConfigNode ==
    \E i \in 1..Len(NodesOf(data, "config_nodes")) :
        NodesOf(data, "config_nodes")[i]
            = PyDict(("Node" :> PyInt(2)) @@ ("Co2SetPoint" :> GoodLeaf))

HasGoodActionNode ==
    \E i \in 1..Len(NodesOf(data, "action_nodes")) :
        NodesOf(data, "action_nodes")[i]
            = PyDict(("Node" :> PyInt(2))
                     @@ ("Actions" :> PyList(<< EnumAction("SetVentilationState") >>)))

(* C25: a malformed item of the document makes only that item produce
   nothing: no setup pass aborts, and once a pass has run the entities of the
   well-formed items are there. *)
C25_PerItemDegradation ==
    /\ \A p \in DOMAIN setup : setup[p] # "raised"
    /\ (setup["number"] # "pending" /\ HasGoodConfigNode) =>
          \E i \in 1..Len(numberEntities) :
              numberEntities[i].unique_id = "aabb01-2-Co2SetPoint"
    /\ (setup["select"] # "pending" /\ HasGoodActionNode) =>
          \E i \in 1..Len(selectEntities) :
              selectEntities[i].unique_id = "aabb01-2-SetVentilationState"
    /\ setup["number"] # "pending" =>
          \E i \in 1..Len(numberEntities) :
              numberEntities[i].unique_id = "aabb01-config-HeatRecovery-Bypass-TimeFilter"

-----------------------------------------------------------------------------
(* Reads of number and select entities *)

(* Index of the first element of s that satisfies Test, 0 if there is none *)
FirstIndex(s, Test(_)) ==
    IF \E i \in 1..Len(s) : Test(s[i])
    THEN CHOOSE i \in 1..Len(s) : Test(s[i]) /\ \A j \in 1..(i - 1) : ~Test(s[j])
    ELSE 0

(* DucoboxNodeNumberEntity.native_value: the Val of the first node with the
   entity's id that holds the parameter; node.get raises on a node that is not
   a mapping *)
NodeNativeValue(e, d) ==
    LET nodes == NodesOf(d, "config_nodes")
        Match(n) == /\ DictGet(n, "Node", PyNone) = e.node_id
                    /\ IsDict(DictGet(n, e.param_key, PyNone))
                    /\ HasKey(n.d[e.param_key], "Val")
        first == FirstIndex(nodes, Match)
        stop == IF first = 0 THEN Len(nodes) ELSE first
    IN IF \E i \in 1..stop : ~IsDict(nodes[i]) THEN Raised
       ELSE IF first = 0 THEN Returned(PyNone)
       ELSE Returned(nodes[first].d[e.param_key].d["Val"])

(* DucoboxActionSelectEntity.current_option: the state of the first node with
   the entity's id, as a string when it is one of the options *)
ActionCurrentOption(e, d) ==
    IF ~(Truthy(e.state_module) /\ Truthy(e.state_key)) THEN Returned(PyNone)
    ELSE LET v == DictGet(d, "nodes", PyList(<<>>))
         IN IF v.t # "list" THEN Raised
            ELSE LET Match(n) == DictGet(n, "Node", PyNone) = e.node_id
                     first == FirstIndex(v.l, Match)
                     stop == IF first = 0 THEN Len(v.l) ELSE first
                 IN IF \E i \in 1..stop : ~IsDict(v.l[i]) THEN Raised
                    ELSE IF first = 0 THEN Returned(PyNone)
                    ELSE LET val == safe_get(v.l[first],
                                             << e.state_module.s, e.state_key.s, "Val" >>)
                         IN IF val # PyNone /\ PyStr(Format(val)) \in Range(e.options.l)
                            THEN Returned(PyStr(Format(val)))
                            ELSE Returned(val)

(* A read of native_value of number entity i *)
ReadNumber(i) ==
    /\ setup["number"] = "done"
    /\ lastOp' = [ op |-> "native_value", platform |-> "number", entity |-> i,
                   result |-> IF numberEntities[i].cls = "DucoboxBoxNumberEntity"
                              THEN Returned(BoxNativeValue(numberEntities[i], data))
                              ELSE NodeNativeValue(numberEntities[i], data) ]
    /\ UNCHANGED << data, setup, numberEntities, switchEntities, selectEntities,
                    writes, refreshes, node, discovered, descriptions,
                    sensorEntities, buttonEntities, calls >>

(* A read of current_option of select entity i *)
ReadSelect(i) ==
    /\ setup["select"] = "done"
    /\ lastOp' = [ op |-> "current_option", platform |-> "select", entity |-> i,
                   result |-> IF selectEntities[i].cls = "DucoboxConfigSelectEntity"
                              THEN Returned(ConfigCurrentOption(selectEntities[i], data))
                              ELSE ActionCurrentOption(selectEntities[i], data) ]
    /\ UNCHANGED << data, setup, numberEntities, switchEntities, selectEntities,
                    writes, refreshes, node, discovered, descriptions,
                    sensorEntities, buttonEntities, calls >>

-----------------------------------------------------------------------------
(* Entities over documents that the poller replaces *)

LiveConfigs ==
    { FixtureConfig,
      PyDict(Nest(
        (<< "HeatRecovery", "Bypass", "TimeFilter" >> :> Tunable(PyInt(270), 90, 360, 90))
        @@ (<< "HeatRecovery", "Bypass", "Mode" >> :> Tunable(PyInt(2), 0, 2, 1))
        @@ (<< "VentCool", "General", "EnableMonday" >> :> Tunable(PyInt(1), 0, 1, 1)))),
      PyDict(Nest(<< "HeatRecovery", "Bypass", "Mode" >> :> Tunable(PyNone, 0, 2, 1))),
      EmptyDict }

LiveConfigNodes ==
    { << >>,
      << PyDict(("Node" :> PyInt(2)) @@ ("Co2SetPoint" :> Tunable(PyInt(1), 0, 2, 1))) >>,
      << PyDict(("Node" :> PyInt(1)) @@ ("Co2SetPoint" :> Tunable(PyInt(0), 0, 2, 1))),
         PyDict(("Node" :> PyInt(2)) @@ ("Co2SetPoint" :> Tunable(PyInt(2), 0, 2, 1))) >>,
      << PyDict(("Node" :> PyInt(2)) @@ ("SerialBoard" :> PyStr("RS02"))) >> }

StateNode(id, state) ==
    PyDict(("Node" :> PyInt(id))
           @@ ("Ventilation" :> PyDict("State" :> PyDict("Val" :> state))))

LiveNodes ==
    { << >>,
      << StateNode(1, PyStr("AUTO")) >>,
      << StateNode(2, PyStr("AUTO")), StateNode(1, PyStr("MAN1")) >>,
      << StateNode(1, PyStr("CNT1")) >>,
      << StateNode(2, PyStr("MAN1")) >> }

LiveDocument(config, config_nodes, nodes) ==
    PyDict(("info" :> InfoOf(PyStr("AA:BB:01"))) @@ ("config" :> config)
           @@ ("config_nodes" :> PyDict("Nodes" :> PyList(config_nodes)))
           @@ ("action_nodes" :> FixtureActionNodes)
           @@ ("nodes" :> PyList(nodes)))

LiveDocs ==
    { LiveDocument(c, cn, ns) :
        c \in LiveConfigs, cn \in LiveConfigNodes, ns \in LiveNodes }

InitLive == data \in LiveDocs /\ InitInfoRest

NextLive ==
    \/ NumberSetup
    \/ SwitchSetup
    \/ SelectSetup
    \/ Replace(LiveDocs)
    \/ \E i \in 1..Len(numberEntities) : ReadNumber(i)
    \/ \E i \in 1..Len(switchEntities) : ReadSwitch(i)
    \/ \E i \in 1..Len(selectEntities) : ReadSelect(i)

SpecLive == InitLive /\ [][NextLive]_vars

-----------------------------------------------------------------------------
(* Live values *)

ReadOps == { "native_value", "is_on", "current_option" }

(* The entity the last read was made on *)
ReadEntity ==
    CASE lastOp.platform = "number" -> numberEntities[lastOp.entity]
      [] lastOp.platform = "switch" -> switchEntities[lastOp.entity]
      [] lastOp.platform = "select" -> selectEntities[lastOp.entity]

(* Val of the leaf at the path of box entity e in the current document *)
ValNow(e) ==
    IF ValAbsentOrNone(LeafNow(e)) THEN PyNone ELSE LeafNow(e).d["Val"]

(* Val of parameter key of the first node with the given id in the list ns
   that holds a Val for it, None when there is none *)
NodeValNow(ns, id, path) ==
    LET Has(n, k) == n.t = "dict" /\ k \in DOMAIN n.d
        At(n) == IF Len(path) = 1 THEN n.d[path[1]] ELSE n.d[path[1]].d[path[2]]
        Holding == { i \in 1..Len(ns) :
                       /\ Has(ns[i], "Node") /\ ns[i].d["Node"] = id
                       /\ Has(ns[i], path[1])
                       /\ Len(path) = 2 => Has(ns[i].d[path[1]], path[2])
                       /\ Has(At(ns[i]), "Val") }
    IN IF Holding = {} THEN PyNone
       ELSE At(ns[CHOOSE i \in Holding : \A j \in Holding : i <= j]).d["Val"]

(* C26: after any sequence of replacements of the coordinator's document,
   the value a number, switch or select entity reports is the one derived
   from the current document: the Val at the entity's path or node (as on/off
   for a switch, as its label for a config select), None when the node or the
   parameter is no longer there. *)
C26_LiveValues ==
    lastOp.op \in ReadOps =>
        LET e == ReadEntity
        IN CASE e.cls = "DucoboxBoxNumberEntity" ->
                    lastOp.result = [ raised |-> FALSE, value |-> ValNow(e) ]
             [] e.cls = "DucoboxNodeNumberEntity" ->
                    lastOp.result =
                        [ raised |-> FALSE,
                          value |-> NodeValNow(data.d["config_nodes"].d["Nodes"].l,
                                               e.node_id, << e.param_key >>) ]
             [] e.cls = "DucoboxBoxSwitchEntity" ->
                    lastOp.result = IF ValNow(e) = PyNone THEN PyNone
                                    ELSE PyBool(ValNow(e) # PyInt(0))
             [] e.cls = "DucoboxConfigSelectEntity" ->
                    lastOp.result =
                        [ raised |-> FALSE,
                          value |-> IF ValNow(e) = PyNone THEN PyNone
                                    ELSE PyStr(e.val_to_label[ValNow(e).i]) ]
             [] e.cls = "DucoboxActionSelectEntity" ->
                    e.action = "SetVentilationState" =>
                        lastOp.result =
                            [ raised |-> FALSE,
                              value |-> NodeValNow(data.d["nodes"].l, e.node_id,
                                                   << "Ventilation", "State" >>) ]

(* The number entity of node 1, built from a document that listed node 1, is
   read after a replacement by a document that lists only node 2. *)
C26_Witness ==
    /\ lastOp.op = "native_value"
    /\ ReadEntity.cls = "DucoboxNodeNumberEntity"
    /\ ReadEntity.node_id = PyInt(1)
    /\ Len(data.d["config_nodes"].d["Nodes"].l) = 1
    /\ data.d["config_nodes"].d["Nodes"].l[1].d["Node"] = PyInt(2)
    /\ lastOp.result = [ raised |-> FALSE, value |-> PyNone ]

-----------------------------------------------------------------------------
(* State of an action select *)

(* C29: current_option of an action select entity is None or a string that
   is one of the entity's options, and it is None when the action has no
   state mapping or the entity's node is not among the nodes. *)
C29_ActionStateValid ==
    (/\ lastOp.op = "current_option"
     /\ ReadEntity.cls = "DucoboxActionSelectEntity") =>
        LET e == ReadEntity
            nodes == data.d["nodes"].l
        IN /\ ~lastOp.result.raised
           /\ \/ lastOp.result.value = PyNone
              \/ \E i \in 1..Len(e.options.l) : lastOp.result.value = e.options.l[i]
           /\ (\/ e.action \notin DOMAIN ACTION_STATE_MAP
               \/ \A i \in 1..Len(nodes) : nodes[i].d["Node"] # e.node_id)
                 => lastOp.result.value = PyNone

-----------------------------------------------------------------------------
(* The document under the passes and the reads *)

FrameDocs ==
    { InfoDocument(PyDict(Nest(MacEntry("known")
                               @@ (<< "Ventilation", "Sensor", "TempOda" >>
                                     :> PyDict("Val" :> PyInt(108))))),
                   PyList(<< FixtureNode >>), FixtureAction),
      InfoDocument(PyDict(Nest(MacEntry("known"))), PyNone, EmptyDict) }

FrameNodes ==
    { FixtureNode, PyDict(("Node" :> PyInt(1)) @@ ("Sensor" :> PyInt(7))) }

InitFrame ==
    /\ data \in FrameDocs
    /\ node \in FrameNodes
    /\ setup = [ p \in Platforms \cup InfoPlatforms |-> "pending" ]
    /\ numberEntities = <<>>
    /\ switchEntities = <<>>
    /\ selectEntities = <<>>
    /\ sensorEntities = <<>>
    /\ buttonEntities = <<>>
    /\ writes = <<>>
    /\ refreshes = 0
    /\ calls = <<>>
    /\ lastOp = NoOp
    /\ discovered = FALSE
    /\ descriptions = <<>>

NextFrame ==
    \/ NumberSetup
    \/ SwitchSetup
    \/ SelectSetup
    \/ SensorSetup
    \/ ButtonSetup
    \/ Discover
    \/ Replace(FrameDocs)
    \/ \E i \in 1..Len(SENSORS) : ReadSensor(i)
    \/ \E j \in 1..Len(descriptions) : ReadNodeValue(j)
    \/ \E i \in 1..Len(numberEntities) : ReadNumber(i)
    \/ \E i \in 1..Len(switchEntities) : ReadSwitch(i)
    \/ \E i \in 1..Len(selectEntities) : ReadSelect(i)

SpecFrame == InitFrame /\ [][NextFrame]_vars

(* A step of the poller: nothing but the document and the record of the last
   operation changes *)
PollStep ==
    /\ lastOp' = [ op |-> "update" ]
    /\ UNCHANGED << setup, numberEntities, switchEntities, selectEntities,
                    sensorEntities, buttonEntities, discovered, descriptions,
                    calls >>

(* C27: discovery, the value functions, the five setup passes and the value
   reads leave the coordinator's document and the node document as they
   found them; only a step of the poller changes the document. *)
C27_DocumentNotMutated ==
    [][~PollStep => (data' = data /\ node' = node)]_vars

(* All five passes and the discovery ran on the fixture document, and a node
   descriptor's value function was read. *)
C27_Witness ==
    /\ \A p \in DOMAIN setup : setup[p] = "done"
    /\ discovered
    /\ lastOp.op = "node_value_fn"
    /\ data \in FrameDocs
    /\ safe_get(data, << "nodes" >>) = PyList(<< FixtureNode >>)

-----------------------------------------------------------------------------
(* Unknown-MAC gate of the select pass *)

(* C28: when info.General.Lan.Mac.Val is absent or None, the select pass
   adds no action select and no config select entity. *)
C28_SelectUnknownMacGate ==
    (MacUnknown /\ setup["select"] # "pending") => selectEntities = <<>>


-----------------------------------------------------------------------------
(* Box number writes under integer, fractional and zero steps *)

(* A tunable leaf whose Val, Min, Max and Inc are numbers as the API gives
   them, ints or floats *)
StepLeaf(val, min, max, inc) ==
    PyDict(("Val" :> val) @@ ("Min" :> min) @@ ("Max" :> max) @@ ("Inc" :> inc))

(* (Min, Max) of the leaf: 0..3 and 0.5..2.5 *)
StepBounds == { << PyInt(0), PyInt(3) >>, << PyFloat(50), PyFloat(250) >> }

(* Inc of the leaf: 1, 2, 1.0, 0.5, 0 and 0.0 *)
StepIncs == { PyInt(1), PyInt(2), PyFloat(100), PyFloat(50), PyInt(0), PyFloat(0) }

(* Values handed to async_set_native_value: 0.5, 1.25, 1.5, 2.5, 2.75, 3.0
   and the integer 2 *)
StepInputs ==
    { PyFloat(h) : h \in { 50, 125, 150, 250, 275, 300 } } \cup { PyInt(2) }

StepDocs ==
    { Document(PyStr("AA:BB:01"),
               PyDict(Nest(<< "HeatRecovery", "Bypass", "TimeFilter" >> :>
                              StepLeaf(b[1], b[1], b[2], inc))),
               FixtureConfigNodes) : b \in StepBounds, inc \in StepIncs }

InitStep == data \in StepDocs /\ InitInfoRest

NextStep ==
    \/ NumberSetup
    \/ \E i \in 1..Len(numberEntities), value \in StepInputs, ok \in BOOLEAN :
         BoxNumberSetValue(i, value, ok)

SpecStep == InitStep /\ [][NextStep]_vars

(* A number in hundredths *)
Hundredths(x) == IF x.t = "float" THEN x.h ELSE 100 * x.i

InRange(x, e) ==
    /\ Hundredths(e.min_value) <= Hundredths(x)
    /\ Hundredths(x) <= Hundredths(e.max_value)

(* w is an int and no integer is nearer to v *)
NearestInteger(w, v) ==
    /\ w.t = "int"
    /\ 100 * w.i - Hundredths(v) <= 50
    /\ Hundredths(v) - 100 * w.i <= 50

IntegerStep(e) == Hundredths(e.step) # 0 /\ Hundredths(e.step) % 100 = 0

BoxNumberSet ==
    /\ lastOp.op = "async_set_native_value"
    /\ lastOp.entity \in BoxNumberIndices

(* After a box number set of v: the value written is an int nearest to v when
   the step is a non-zero integer-valued number, and v itself when the step is
   fractional or zero. *)
StepRoundingRule ==
    BoxNumberSet =>
        LET e == numberEntities[lastOp.entity]
            w == calls[lastOp.first].args[4]
        IN IF IntegerStep(e) THEN NearestInteger(w, lastOp.value)
           ELSE w = lastOp.value

(* C30: after a box number set of v, the value written is an int nearest to v
   when the step is a non-zero integer-valued number and v itself when the
   step is fractional or zero, and it lies within [Min, Max] of the entity
   whenever v does. *)
C30_IntegerStepRounding ==
    /\ StepRoundingRule
    /\ BoxNumberSet =>
         LET e == numberEntities[lastOp.entity]
         IN InRange(lastOp.value, e) => InRange(calls[lastOp.first].args[4], e)

====
